---- MODULE Spec2Model ----
(***************************************************************************)
(* go-auth-system: JWT issuance and validation, refresh-token rotation     *)
(* with the in-memory blacklist, the user service over the user store,     *)
(* and the Gin authentication / role middleware in front of the routes.    *)
(*                                                                         *)
(* Time is counted in ticks; TicksPerSecond ticks make one second, so that *)
(* jwt.NewNumericDate's truncation to whole seconds is visible.  time.Hour *)
(* is scaled down to SecondsPerHour seconds to keep expiry within reach.   *)
(***************************************************************************)
EXTENDS Integers, Sequences, FiniteSets, TLC

\* ------------------------------------------------------------------ bounds
TicksPerSecond == 2
SecondsPerHour == 1
MaxTTL == 1
MaxTime == 3
MaxUsers == 2
MaxIssued == 4

Second == TicksPerSecond
Hour == SecondsPerHour * Second

Times == 0..MaxTime
NoTime == -1

VARIABLES
    jwt,        \* JWTService: secretKey, expirationTime, refreshKey, refreshExpTime
    now,        \* time.Now(), in ticks
    users,      \* the user table: id -> row
    nextId,     \* number of ids handed out by uuid.New()
    blacklist,  \* refreshTokenBlacklist
    issued,     \* token pairs the clients hold
    exchanged,  \* history: refresh tokens that bought a new pair
    loggedOut,  \* history: refresh tokens carried by an answered Logout
    pc,         \* concurrent RefreshTokens calls: position of each call
    loc,        \* concurrent RefreshTokens calls: locals of each call
    tok,        \* token codec run: the token under test
    subject,    \* token codec run: the user the token was generated for
    vres,       \* token codec run: result of the last validation
    req,        \* middleware run: the request (header, chain position)
    ctx         \* middleware run: the gin.Context keys and the response

vars == <<jwt, now, users, nextId, blacklist, issued, exchanged,
          loggedOut, pc, loc, tok, subject, vres, req, ctx>>

\* ------------------------------------------------------------ pkg/errors
StatusOK == 200
StatusCreated == 201
StatusBadRequest == 400
StatusUnauthorized == 401
StatusForbidden == 403
StatusNotFound == 404
StatusConflict == 409
StatusInternalServerError == 500

NoError == [Code |-> 0, Message |-> "", Internal |-> ""]

ErrInternalServer ==
    [Code |-> StatusInternalServerError, Message |-> "Erro interno do servidor", Internal |-> ""]
ErrBadRequest ==
    [Code |-> StatusBadRequest, Message |-> "Requisição inválida", Internal |-> ""]
ErrUnauthorized ==
    [Code |-> StatusUnauthorized, Message |-> "Não autorizado", Internal |-> ""]
ErrForbidden ==
    [Code |-> StatusForbidden, Message |-> "Acesso negado", Internal |-> ""]
ErrUserNotFound ==
    [Code |-> StatusNotFound, Message |-> "Usuário não encontrado", Internal |-> ""]
ErrEmailAlreadyExists ==
    [Code |-> StatusConflict, Message |-> "Email já está em uso", Internal |-> ""]
ErrInvalidCredentials ==
    [Code |-> StatusUnauthorized, Message |-> "Credenciais inválidas", Internal |-> ""]
ErrInvalidToken ==
    [Code |-> StatusUnauthorized, Message |-> "Token inválido ou expirado", Internal |-> ""]
ErrMissingToken ==
    [Code |-> StatusUnauthorized, Message |-> "Token de autenticação não fornecido", Internal |-> ""]

WithError(e, err) == [Code |-> e.Code, Message |-> e.Message, Internal |-> err]

WithMessage(e, message) == [Code |-> e.Code, Message |-> message, Internal |-> e.Internal]

\* an error that is not an AppError and wraps none, e.g. errors.New(text)
PlainError(text) == [Text |-> text]

\* errors.As(err, &appErr)
IsAppError(e) == "Code" \in DOMAIN e

\* the AppError the handlers answer with: the error itself, or
\* ErrInternalServer around an error that is not an AppError
AsAppError(e) == IF IsAppError(e) THEN e ELSE WithError(ErrInternalServer, e.Text)

\* a handler that answers with err.Error(): the wrapped error when there is one
GinHandleError_Leaks(e) ==
    [status |-> AsAppError(e).Code,
     message |-> IF AsAppError(e).Internal # "" THEN AsAppError(e).Internal
                 ELSE AsAppError(e).Message]

\* GinHandleError: what it writes, the code and the message of the AppError
GinHandleError(e) == [status |-> AsAppError(e).Code, message |-> AsAppError(e).Message]

\* ------------------------------------------------------------- tokens
\* A signed token is its signing key together with its claims: HS256 is
\* deterministic, so two tokens are the same string exactly when key and
\* claims agree.  A refresh token carries only exp and sub.
NoRoles == <<>>

Token(sig, user_id, email, roles, exp, iat, nbf, sub) ==
    [sig |-> sig, user_id |-> user_id, email |-> email, roles |-> roles,
     exp |-> exp, iat |-> iat, nbf |-> nbf, sub |-> sub]

NoToken == Token("", "", "", NoRoles, NoTime, NoTime, NoTime, "")

\* a string that is not three base64url segments, e.g. "invalid-token"
Malformed == Token("malformed", "", "", NoRoles, NoTime, NoTime, NoTime, "")

\* jwt.NewNumericDate: truncation to whole seconds
NewNumericDate(t) == t - (t % Second)


\* ---------------------------------------------------- internal/auth (JWT)
\* TokenClaims.Roles: the roles the access token carries for a user.  The
\* JWTService source at hand declares TokenClaims with UserID and Email
\* only, while GinAuthenticate and the JWT tests read claims.Roles; the
\* roles claim follows the specification: a token carries the roles of the
\* user it was generated for.
ClaimRoles(user) == user.Roles

\* a service that takes expirationTime 0 to mean that the token never expires
GenerateToken_ZeroNeverExpires(s, user, t1, t2, t3) ==
    Token(s.secretKey, user.ID, user.Email, ClaimRoles(user),
          IF s.expirationTime = 0 THEN NoTime
          ELSE NewNumericDate(t1 + Hour * s.expirationTime),
          NewNumericDate(t2), NewNumericDate(t3), user.ID)

\* a service that fills user_id from the e-mail address
GenerateToken_EmailAsID(s, user, t1, t2, t3) ==
    Token(s.secretKey, user.Email, user.Email, ClaimRoles(user),
          NewNumericDate(t1 + Hour * s.expirationTime),
          NewNumericDate(t2), NewNumericDate(t3), user.ID)

\* a GenerateToken that stamps IssuedAt with expirationTime
GenerateToken_IssuedAtExpiry(s, user, t1, t2, t3) ==
    Token(s.secretKey, user.ID, user.Email, ClaimRoles(user),
          NewNumericDate(t1 + Hour * s.expirationTime),
          NewNumericDate(t1 + Hour * s.expirationTime), NewNumericDate(t3), user.ID)

\* GenerateToken; t1, t2, t3 are its three readings of time.Now()
GenerateToken(s, user, t1, t2, t3) ==
    Token(s.secretKey, user.ID, user.Email, ClaimRoles(user),
          NewNumericDate(t1 + Hour * s.expirationTime),
          NewNumericDate(t2), NewNumericDate(t3), user.ID)

\* GenerateRefreshToken: only exp and sub
GenerateRefreshToken(s, userID, t1) ==
    Token(s.refreshKey, "", "", NoRoles,
          NewNumericDate(t1 + Hour * s.refreshExpTime), NoTime, NoTime, userID)

\* a parser that stops accepting a token one second before its exp
ParseWithClaims_EarlyExpiry(t, key, n) ==
    /\ t.sig = key
    /\ (t.exp # NoTime => n < t.exp - Second)
    /\ (t.nbf # NoTime => n >= t.nbf)

\* a parser that reads the claims without verifying the signature
ParseWithClaims_Unverified(t, key, n) ==
    /\ t.sig # "malformed"
    /\ (t.exp # NoTime => n < t.exp)
    /\ (t.nbf # NoTime => n >= t.nbf)

\* jwt.ParseWithClaims with the default validator at time n: the signature
\* must verify under key, exp (when present) must lie strictly after n and
\* nbf (when present) must not lie after n; iat is not verified.
ParseWithClaims(t, key, n) ==
    /\ t.sig = key
    /\ (t.exp # NoTime => n < t.exp)
    /\ (t.nbf # NoTime => n >= t.nbf)

NoClaims == [UserID |-> "", Email |-> "", Roles |-> NoRoles, Subject |-> "", ExpiresAt |-> NoTime]

\* ValidateToken: the TokenClaims of a token that parses under secretKey
ValidateToken(s, t, n) ==
    IF ParseWithClaims(t, s.secretKey, n)
    THEN [valid |-> TRUE,
          claims |-> [UserID |-> t.user_id, Email |-> t.email, Roles |-> t.roles,
                      Subject |-> t.sub, ExpiresAt |-> t.exp]]
    ELSE [valid |-> FALSE, claims |-> NoClaims]

\* ValidateRefreshToken: the RegisteredClaims of a token that parses under refreshKey
ValidateRefreshToken(s, t, n) ==
    IF ParseWithClaims(t, s.refreshKey, n)
    THEN [valid |-> TRUE,
          claims |-> [UserID |-> "", Email |-> "", Roles |-> NoRoles,
                      Subject |-> t.sub, ExpiresAt |-> t.exp]]
    ELSE [valid |-> FALSE, claims |-> NoClaims]

\* NewJWTService: the configurations a deployment or a test constructs
AccessKey == "access-secret"
RefreshKey == "refresh-secret"

NewJWTService(secretKey, expirationHours, refreshKey, refreshExpHours) ==
    [secretKey |-> secretKey, expirationTime |-> expirationHours,
     refreshKey |-> refreshKey, refreshExpTime |-> refreshExpHours]

JWTServices ==
    { NewJWTService(AccessKey, a, rk, r) :
        a \in 0..MaxTTL, rk \in {RefreshKey, AccessKey}, r \in 0..MaxTTL }

\* -------------------------------------------------- internal/domain (User)
IDs == { "u1", "u2", "u3" }
Emails == { "a@x.com", "b@x.com" }
RoleLists == { <<"user">>, <<"admin">>, <<"user", "admin">>, NoRoles }

User(id, email, password, roles) ==
    [ID |-> id, Email |-> email, Password |-> password, Roles |-> roles]

NoPassword == [hashed |-> FALSE, of |-> ""]
NoUser == User("", "", NoPassword, NoRoles)

\* ------------------------------------------- token codec on its own
CodecUsers == { User(id, e, NoPassword, r) : id \in {"u1", "u2"}, e \in Emails, r \in RoleLists }

NoSubject == [kind |-> "none", user |-> NoUser, at |-> NoTime]
NoVres == [op |-> "none", at |-> NoTime, valid |-> FALSE, claims |-> NoClaims]

IdleServer ==
    /\ users = <<>> /\ nextId = 0 /\ blacklist = {} /\ issued = {}
    /\ exchanged = {} /\ loggedOut = {}
    /\ pc = <<>> /\ loc = <<>>

InitJWT ==
    /\ jwt \in JWTServices
    /\ now = 0
    /\ tok = NoToken /\ subject = NoSubject /\ vres = NoVres
    /\ req = <<>> /\ ctx = <<>>
    /\ IdleServer

CodecOnly == UNCHANGED <<jwt, users, nextId, blacklist, issued, exchanged,
                         loggedOut, pc, loc, req, ctx>>

\* the second and third readings of the clock may come a tick after the first
CodecGenerateToken ==
    \E user \in CodecUsers, d2 \in 0..1, d3 \in 0..1 :
        /\ d2 <= d3 /\ now + d3 <= MaxTime
        /\ tok' = GenerateToken(jwt, user, now, now + d2, now + d3)
        /\ subject' = [kind |-> "access", user |-> user, at |-> now]
        /\ now' = now + d3
        /\ vres' = NoVres
        /\ CodecOnly

CodecGenerateRefreshToken ==
    \E id \in {"u1", "u2"} :
        /\ tok' = GenerateRefreshToken(jwt, id, now)
        /\ subject' = [kind |-> "refresh", user |-> User(id, "", NoPassword, NoRoles), at |-> now]
        /\ vres' = NoVres
        /\ UNCHANGED now
        /\ CodecOnly

CodecTick ==
    /\ now < MaxTime
    /\ now' = now + 1
    /\ vres' = NoVres
    /\ UNCHANGED <<tok, subject>>
    /\ CodecOnly

CodecValidateToken ==
    /\ subject.kind # "none"
    /\ vres' = [op |-> "ValidateToken", at |-> now] @@ ValidateToken(jwt, tok, now)
    /\ UNCHANGED <<now, tok, subject>>
    /\ CodecOnly

CodecValidateRefreshToken ==
    /\ subject.kind # "none"
    /\ vres' = [op |-> "ValidateRefreshToken", at |-> now] @@ ValidateRefreshToken(jwt, tok, now)
    /\ UNCHANGED <<now, tok, subject>>
    /\ CodecOnly

NextJWT ==
    \/ CodecGenerateToken
    \/ CodecGenerateRefreshToken
    \/ CodecTick
    \/ CodecValidateToken
    \/ CodecValidateRefreshToken

SpecJWT == InitJWT /\ [][NextJWT]_vars


\* ------------------------------------------------- bcrypt (x/crypto)
Passwords == { "pw1", "pw2" }
\* a password of more than 72 bytes, which bcrypt refuses to hash
TooLong == "pw-longer-than-72-bytes"

\* the first 72 bytes of a password that is longer
Truncated(password) == "pw-longer-than-72"

\* a hasher that hashes the first 72 bytes of a longer password
GenerateFromPassword_Truncates(password) ==
    IF password = TooLong
    THEN [err |-> FALSE, hash |-> [hashed |-> TRUE, of |-> Truncated(password)]]
    ELSE [err |-> FALSE, hash |-> [hashed |-> TRUE, of |-> password]]

GenerateFromPassword(password) ==
    IF password = TooLong
    THEN [err |-> TRUE, hash |-> NoPassword]
    ELSE [err |-> FALSE, hash |-> [hashed |-> TRUE, of |-> password]]

\* nil exactly when hash is a bcrypt hash of password
CompareHashAndPassword(hash, password) == hash.hashed /\ hash.of = password

\* ------------------------------- internal/repository over the users table
\* A row keeps id, email, password and roles; the name and the two
\* timestamps, which no operation reads back, are left out.  up = FALSE is a
\* store that answers every query with an error.
Stored(us) == { us[id] : id \in DOMAIN us }

HasEmail(us, email) == \E u \in Stored(us) : u.Email = email

\* schema.prisma: roles String[] @default(["user"])
DefaultRoles == <<"user">>

\* UserRepository.GetByID: nil, nil for a missing row
RepoGetByID(us, id, up) ==
    IF ~up THEN [err |-> TRUE, user |-> NoUser]
    ELSE IF id \in DOMAIN us THEN [err |-> FALSE, user |-> us[id]]
    ELSE [err |-> FALSE, user |-> NoUser]

\* UserRepository.GetByEmail: nil, nil for a missing row
RepoGetByEmail(us, email, up) ==
    IF ~up THEN [err |-> TRUE, user |-> NoUser]
    ELSE IF HasEmail(us, email)
         THEN [err |-> FALSE, user |-> CHOOSE u \in Stored(us) : u.Email = email]
    ELSE [err |-> FALSE, user |-> NoUser]

\* UserRepository.Create: a fresh uuid when the user has no id; the insert
\* sets email, password and id, so the row gets the schema's default roles;
\* email is @unique and id is the primary key.
RepoCreate(us, user, uuid, up) ==
    LET id == IF user.ID = "" THEN uuid ELSE user.ID IN
    IF ~up \/ HasEmail(us, user.Email) \/ id \in DOMAIN us
    THEN [err |-> TRUE, users |-> us, user |-> [user EXCEPT !.ID = id]]
    ELSE [err |-> FALSE,
          users |-> (id :> User(id, user.Email, user.Password, DefaultRoles)) @@ us,
          user |-> [user EXCEPT !.ID = id]]

\* an Update on a table whose email column has no unique index
RepoUpdate_NoUniqueIndex(us, user, up) ==
    IF ~up \/ user.ID \notin DOMAIN us
    THEN [err |-> TRUE, users |-> us]
    ELSE [err |-> FALSE,
          users |-> [us EXCEPT ![user.ID] =
                        User(user.ID, user.Email, user.Password, us[user.ID].Roles)]]

\* an Update that also sets the roles column
RepoUpdate_SetsRoles(us, user, up) ==
    IF \/ ~up
       \/ user.ID \notin DOMAIN us
       \/ \E id \in DOMAIN us : id # user.ID /\ us[id].Email = user.Email
    THEN [err |-> TRUE, users |-> us]
    ELSE [err |-> FALSE,
          users |-> [us EXCEPT ![user.ID] =
                        User(user.ID, user.Email, user.Password, user.Roles)]]

\* UserRepository.Update: sets email and password of the row with the user's id
RepoUpdate(us, user, up) ==
    IF \/ ~up
       \/ user.ID \notin DOMAIN us
       \/ \E id \in DOMAIN us : id # user.ID /\ us[id].Email = user.Email
    THEN [err |-> TRUE, users |-> us]
    ELSE [err |-> FALSE,
          users |-> [us EXCEPT ![user.ID] =
                        User(user.ID, user.Email, user.Password, us[user.ID].Roles)]]

\* UserRepository.Delete
RepoDelete(us, id, up) ==
    IF ~up \/ id \notin DOMAIN us
    THEN [err |-> TRUE, users |-> us]
    ELSE [err |-> FALSE, users |-> [i \in DOMAIN us \ {id} |-> us[i]]]

\* --------------------------------------------- internal/service (UserService)
RepoFailure == "repo error"
HashFailure == "bcrypt: password length exceeds 72 bytes"
ParseFailure == "token is malformed, badly signed or expired"

\* a Create that leaves the uniqueness of the email to the table
Create_NoEmailCheck(us, user, uuid, up) ==
    LET existing == RepoGetByEmail(us, user.Email, up)
        h == GenerateFromPassword(user.Password)
        c == RepoCreate(us, [user EXCEPT !.Password = h.hash], uuid, up)
    IN  IF existing.err
        THEN [err |-> WithError(ErrInternalServer, RepoFailure), users |-> us, user |-> user]
        ELSE IF h.err
        THEN [err |-> WithError(ErrInternalServer, HashFailure), users |-> us, user |-> user]
        ELSE IF c.err
        THEN [err |-> WithError(ErrInternalServer, RepoFailure), users |-> us, user |-> c.user]
        ELSE [err |-> NoError, users |-> c.users, user |-> c.user]

\* UserService.Create
Create(us, user, uuid, up) ==
    LET existing == RepoGetByEmail(us, user.Email, up)
        h == GenerateFromPassword(user.Password)
        c == RepoCreate(us, [user EXCEPT !.Password = h.hash], uuid, up)
    IN  IF existing.err
        THEN [err |-> WithError(ErrInternalServer, RepoFailure), users |-> us, user |-> user]
        ELSE IF existing.user # NoUser
        THEN [err |-> ErrEmailAlreadyExists, users |-> us, user |-> user]
        ELSE IF h.err
        THEN [err |-> WithError(ErrInternalServer, HashFailure), users |-> us, user |-> user]
        ELSE IF c.err
        THEN [err |-> WithError(ErrInternalServer, RepoFailure), users |-> us, user |-> c.user]
        ELSE [err |-> NoError, users |-> c.users, user |-> c.user]

NoPair == [err |-> NoError, access |-> NoToken, refresh |-> NoToken]

Failed(e) == [NoPair EXCEPT !.err = e]

\* an Authenticate that tells an unknown email apart from a wrong password
Authenticate_UserNotFound(s, us, email, password, n, up) ==
    LET found == RepoGetByEmail(us, email, up) IN
    IF found.err THEN Failed(WithError(ErrInternalServer, RepoFailure))
    ELSE IF found.user = NoUser THEN Failed(ErrUserNotFound)
    ELSE IF ~CompareHashAndPassword(found.user.Password, password)
    THEN Failed(ErrInvalidCredentials)
    ELSE [err |-> NoError,
          access |-> GenerateToken(s, found.user, n, n, n),
          refresh |-> GenerateRefreshToken(s, found.user.ID, n)]

\* UserService.Authenticate, at time n
Authenticate(s, us, email, password, n, up) ==
    LET found == RepoGetByEmail(us, email, up) IN
    IF found.err THEN Failed(WithError(ErrInternalServer, RepoFailure))
    ELSE IF found.user = NoUser THEN Failed(ErrInvalidCredentials)
    ELSE IF ~CompareHashAndPassword(found.user.Password, password)
    THEN Failed(ErrInvalidCredentials)
    ELSE [err |-> NoError,
          access |-> GenerateToken(s, found.user, n, n, n),
          refresh |-> GenerateRefreshToken(s, found.user.ID, n)]

AlreadyUsed == "Refresh token inválido ou já utilizado"

\* ClearRefreshTokenBlacklist: the blacklist after it.  Only the tests call
\* it; no controller and no route does, so no action of the server uses it.
ClearRefreshTokenBlacklist == {}

\* a logout helper that starts the blacklist afresh
BlacklistRefreshToken_Resets(bl, token) == {token}

\* a logout helper that leaves the blacklist as it was
BlacklistRefreshToken_Noop(bl, token) == bl

\* BlacklistRefreshToken
BlacklistRefreshToken(bl, token) == bl \cup {token}

\* a rotation that forgets to blacklist the token it consumed
RefreshTokens_NoBlacklist(s, us, bl, refreshToken, n, up) ==
    LET v == ValidateRefreshToken(s, refreshToken, n)
        found == RepoGetByID(us, v.claims.Subject, up)
    IN  IF refreshToken \in bl
        THEN Failed(WithMessage(ErrUnauthorized, AlreadyUsed)) @@ [blacklist |-> bl]
        ELSE IF ~v.valid
        THEN Failed(WithError(ErrUnauthorized, ParseFailure)) @@ [blacklist |-> bl]
        ELSE IF found.err \/ found.user = NoUser
        THEN Failed(ErrUserNotFound) @@ [blacklist |-> bl]
        ELSE [err |-> NoError,
              access |-> GenerateToken(s, found.user, n, n, n),
              refresh |-> GenerateRefreshToken(s, found.user.ID, n),
              blacklist |-> bl]

\* a rotation that blacklists the presented token before it checks it
RefreshTokens_MarksFirst(s, us, bl, refreshToken, n, up) ==
    LET v == ValidateRefreshToken(s, refreshToken, n)
        found == RepoGetByID(us, v.claims.Subject, up)
        marked == bl \cup {refreshToken}
    IN  IF refreshToken \in bl
        THEN Failed(WithMessage(ErrUnauthorized, AlreadyUsed)) @@ [blacklist |-> bl]
        ELSE IF ~v.valid
        THEN Failed(WithError(ErrUnauthorized, ParseFailure)) @@ [blacklist |-> marked]
        ELSE IF found.err \/ found.user = NoUser
        THEN Failed(ErrUserNotFound) @@ [blacklist |-> marked]
        ELSE [err |-> NoError,
              access |-> GenerateToken(s, found.user, n, n, n),
              refresh |-> GenerateRefreshToken(s, found.user.ID, n),
              blacklist |-> marked]

\* a rotation that validates the token before it looks at the blacklist
RefreshTokens_ValidateFirst(s, us, bl, refreshToken, n, up) ==
    LET v == ValidateRefreshToken(s, refreshToken, n)
        found == RepoGetByID(us, v.claims.Subject, up)
    IN  IF ~v.valid
        THEN Failed(WithError(ErrUnauthorized, ParseFailure)) @@ [blacklist |-> bl]
        ELSE IF refreshToken \in bl
        THEN Failed(WithMessage(ErrUnauthorized, AlreadyUsed)) @@ [blacklist |-> bl]
        ELSE IF found.err \/ found.user = NoUser
        THEN Failed(ErrUserNotFound) @@ [blacklist |-> bl]
        ELSE [err |-> NoError,
              access |-> GenerateToken(s, found.user, n, n, n),
              refresh |-> GenerateRefreshToken(s, found.user.ID, n),
              blacklist |-> bl \cup {refreshToken}]

\* a rotation that builds the access token from the refresh token's claims
RefreshTokens_FromClaims(s, us, bl, refreshToken, n, up) ==
    LET v == ValidateRefreshToken(s, refreshToken, n)
        found == RepoGetByID(us, v.claims.Subject, up)
    IN  IF refreshToken \in bl
        THEN Failed(WithMessage(ErrUnauthorized, AlreadyUsed)) @@ [blacklist |-> bl]
        ELSE IF ~v.valid
        THEN Failed(WithError(ErrUnauthorized, ParseFailure)) @@ [blacklist |-> bl]
        ELSE IF found.err \/ found.user = NoUser
        THEN Failed(ErrUserNotFound) @@ [blacklist |-> bl]
        ELSE [err |-> NoError,
              access |-> GenerateToken(s, User(v.claims.Subject, v.claims.Email, NoPassword,
                                               v.claims.Roles), n, n, n),
              refresh |-> GenerateRefreshToken(s, found.user.ID, n),
              blacklist |-> bl \cup {refreshToken}]

\* UserService.RefreshTokens, at time n, run from start to end without
\* another request in between
RefreshTokens(s, us, bl, refreshToken, n, up) ==
    LET v == ValidateRefreshToken(s, refreshToken, n)
        found == RepoGetByID(us, v.claims.Subject, up)
    IN  IF refreshToken \in bl
        THEN Failed(WithMessage(ErrUnauthorized, AlreadyUsed)) @@ [blacklist |-> bl]
        ELSE IF ~v.valid
        THEN Failed(WithError(ErrUnauthorized, ParseFailure)) @@ [blacklist |-> bl]
        ELSE IF found.err \/ found.user = NoUser
        THEN Failed(ErrUserNotFound) @@ [blacklist |-> bl]
        ELSE [err |-> NoError,
              access |-> GenerateToken(s, found.user, n, n, n),
              refresh |-> GenerateRefreshToken(s, found.user.ID, n),
              blacklist |-> bl \cup {refreshToken}]

\* UserRepository.List
RepoList(us, up) ==
    IF ~up THEN [err |-> TRUE, users |-> {}] ELSE [err |-> FALSE, users |-> Stored(us)]

\* UserService.GetByID
GetByID(us, id, up) ==
    LET found == RepoGetByID(us, id, up) IN
    IF found.err THEN [err |-> WithError(ErrInternalServer, RepoFailure), user |-> NoUser]
    ELSE IF found.user = NoUser THEN [err |-> ErrUserNotFound, user |-> NoUser]
    ELSE [err |-> NoError, user |-> found.user]

\* UserService.GetByEmail
GetByEmail(us, email, up) ==
    LET found == RepoGetByEmail(us, email, up) IN
    IF found.err THEN [err |-> WithError(ErrInternalServer, RepoFailure), user |-> NoUser]
    ELSE IF found.user = NoUser THEN [err |-> ErrUserNotFound, user |-> NoUser]
    ELSE [err |-> NoError, user |-> found.user]

\* an Update that hashes the password field of the row it saves once more
Update_Rehashes(us, user, up, up2) ==
    LET existing == RepoGetByID(us, user.ID, up)
        w == RepoUpdate(us, [user EXCEPT !.Password = [hashed |-> TRUE, of |-> "bcrypt-hash"]], up2)
    IN  IF existing.err THEN [err |-> WithError(ErrInternalServer, RepoFailure), users |-> us]
        ELSE IF existing.user = NoUser THEN [err |-> ErrUserNotFound, users |-> us]
        ELSE IF w.err THEN [err |-> WithError(ErrInternalServer, RepoFailure), users |-> us]
        ELSE [err |-> NoError, users |-> w.users]

\* UserService.Update; up and up2 are the store at the lookup and at the write
Update(us, user, up, up2) ==
    LET existing == RepoGetByID(us, user.ID, up)
        w == RepoUpdate(us, user, up2)
    IN  IF existing.err THEN [err |-> WithError(ErrInternalServer, RepoFailure), users |-> us]
        ELSE IF existing.user = NoUser THEN [err |-> ErrUserNotFound, users |-> us]
        ELSE IF w.err THEN [err |-> WithError(ErrInternalServer, RepoFailure), users |-> us]
        ELSE [err |-> NoError, users |-> w.users]

\* a Delete that reports success and leaves the row
Delete_KeepsRow(us, id, up, up2) ==
    LET existing == RepoGetByID(us, id, up) IN
    IF existing.err THEN [err |-> WithError(ErrInternalServer, RepoFailure), users |-> us]
    ELSE IF existing.user = NoUser THEN [err |-> ErrUserNotFound, users |-> us]
    ELSE [err |-> NoError, users |-> us]

\* UserService.Delete; up and up2 are the store at the lookup and at the write
Delete(us, id, up, up2) ==
    LET existing == RepoGetByID(us, id, up)
        w == RepoDelete(us, id, up2)
    IN  IF existing.err THEN [err |-> WithError(ErrInternalServer, RepoFailure), users |-> us]
        ELSE IF existing.user = NoUser THEN [err |-> ErrUserNotFound, users |-> us]
        ELSE IF w.err THEN [err |-> WithError(ErrInternalServer, RepoFailure), users |-> us]
        ELSE [err |-> NoError, users |-> w.users]

\* UserService.ListAll
ListAll(us, up) ==
    LET l == RepoList(us, up) IN
    IF l.err THEN [err |-> WithError(ErrInternalServer, RepoFailure), users |-> {}]
    ELSE [err |-> NoError, users |-> l.users]

\* ------------------------------------------- internal/middleware (Gin)
\* The Authorization header, as strings.Split(header, " ") sees it: the
\* number of parts, the first part, and the second part read as a token.
Header(parts, scheme, token) == [parts |-> parts, scheme |-> scheme, token |-> token]

NoHeader == Header(0, "", NoToken)

Bearer(token) == Header(2, "Bearer", token)

\* the keys a middleware has set on the gin.Context
NoKeys == [has_user_id |-> FALSE, user_id |-> "", user_email |-> "",
           has_roles |-> FALSE, roles |-> NoRoles]

BadFormat == "Formato de autorização inválido"
Denied == "Acesso negado: permissão insuficiente"

Abort(e, keys) == [abort |-> TRUE, keys |-> keys] @@ GinHandleError(e)

Continue(keys) == [abort |-> FALSE, status |-> 0, message |-> "", keys |-> keys]

\* a gate that answers an invalid token and lets the chain go on
GinAuthenticate_NoAbort(s, header, keys, n) ==
    LET v == ValidateToken(s, header.token, n) IN
    IF header = NoHeader THEN Abort(ErrMissingToken, keys)
    ELSE IF header.parts # 2 \/ header.scheme # "Bearer"
    THEN Abort(WithMessage(ErrBadRequest, BadFormat), keys)
    ELSE Continue([has_user_id |-> TRUE, user_id |-> v.claims.UserID,
                   user_email |-> v.claims.Email,
                   has_roles |-> TRUE, roles |-> v.claims.Roles])

\* AuthMiddleware.GinAuthenticate, at time n
GinAuthenticate(s, header, keys, n) ==
    LET v == ValidateToken(s, header.token, n) IN
    IF header = NoHeader THEN Abort(ErrMissingToken, keys)
    ELSE IF header.parts # 2 \/ header.scheme # "Bearer"
    THEN Abort(WithMessage(ErrBadRequest, BadFormat), keys)
    ELSE IF ~v.valid THEN Abort(WithError(ErrInvalidToken, ParseFailure), keys)
    ELSE Continue([has_user_id |-> TRUE, user_id |-> v.claims.UserID,
                   user_email |-> v.claims.Email,
                   has_roles |-> TRUE, roles |-> v.claims.Roles])

\* a role check that is content with any role
containsRole_AnyRole(roles, role) == Len(roles) > 0

\* containsRole
containsRole(roles, role) == \E i \in 1..Len(roles) : roles[i] = role

\* AuthMiddleware.GinRequireRole(role)
GinRequireRole(keys, role) ==
    IF ~keys.has_user_id \/ ~keys.has_roles \/ ~containsRole(keys.roles, role)
    THEN Abort(WithMessage(ErrForbidden, Denied), keys)
    ELSE Continue(keys)

\* --------------------------------------- internal/middleware (net/http)
\* HandleError: the status and the message written to the ResponseWriter
HandleError(e) == [status |-> AsAppError(e).Code, message |-> AsAppError(e).Message]

\* the values a middleware has put in the request context under the typed
\* keys UserIDKey and UserEmailKey
NoValues == [has_UserIDKey |-> FALSE, UserIDKey |-> "", UserEmailKey |-> ""]

Stop(e, values) == [abort |-> TRUE, values |-> values] @@ HandleError(e)

Serve(values) == [abort |-> FALSE, status |-> 0, message |-> "", values |-> values]

\* a gate that answers a header of the wrong shape as a bad token
HTTPAuthenticate_FormatUnauthorized(s, header, values, n) ==
    LET v == ValidateToken(s, header.token, n) IN
    IF header = NoHeader THEN Stop(ErrMissingToken, values)
    ELSE IF header.parts # 2 \/ header.scheme # "Bearer" \/ ~v.valid
    THEN Stop(WithError(ErrInvalidToken, ParseFailure), values)
    ELSE Serve([has_UserIDKey |-> TRUE, UserIDKey |-> v.claims.UserID,
                UserEmailKey |-> v.claims.Email])

\* AuthMiddleware.Authenticate, at time n
HTTPAuthenticate(s, header, values, n) ==
    LET v == ValidateToken(s, header.token, n) IN
    IF header = NoHeader THEN Stop(ErrMissingToken, values)
    ELSE IF header.parts # 2 \/ header.scheme # "Bearer"
    THEN Stop(WithMessage(ErrBadRequest, BadFormat), values)
    ELSE IF ~v.valid THEN Stop(WithError(ErrInvalidToken, ParseFailure), values)
    ELSE Serve([has_UserIDKey |-> TRUE, UserIDKey |-> v.claims.UserID,
                UserEmailKey |-> v.claims.Email])

NotAuthorized == "Não autorizado"

\* AuthMiddleware.RequireRole(role, next): http.Error(w, ..., 401) unless
\* the context has a value under UserIDKey
HTTPRequireRole(values, role) ==
    IF ~values.has_UserIDKey
    THEN [abort |-> TRUE, status |-> StatusUnauthorized, message |-> NotAuthorized,
          values |-> values]
    ELSE Serve(values)

\* --------------------------------------- the server behind its routes
\* cmd/api/main.go builds one JWTService with two different keys and two
\* positive lifetimes (24 and 168 hours)
SystemJWTServices ==
    { NewJWTService(AccessKey, a, RefreshKey, r) : a \in 1..MaxTTL, r \in 1..MaxTTL }

UUIDs == <<"u0", "u1", "u2", "u3", "u4">>

\* uuid.New(): an id no row has had
NewUUID(k) == UUIDs[k + 1]

DefaultAdminEmail == "admin@admin.com"
DefaultAdminPassword == "Admin123!@#"

\* main: the default admin is handed to the repository as it is when no row
\* has its email
Bootstrap(us, uuid) ==
    IF RepoGetByEmail(us, DefaultAdminEmail, TRUE).user = NoUser
    THEN RepoCreate(us, User("", DefaultAdminEmail,
                             [hashed |-> FALSE, of |-> DefaultAdminPassword], <<"admin">>),
                    uuid, TRUE).users
    ELSE us

\* a mapper that makes every registered user an admin
FromUserRequest_Admin(email, password) == User("", email, password, <<"admin">>)

\* UserRequest.FromUserRequest: every registered user starts with role "user"
FromUserRequest(email, password) == User("", email, password, <<"user">>)

\* the JSON body of a registration, with a roles field the client added
RegisterBody(email, password, roles) ==
    [email |-> email, password |-> password, roles |-> roles]

\* ctx.ShouldBindJSON(&user): UserRequest has the fields email, password
\* and name, every other field of the body is dropped
BindUserRequest(body) == [Email |-> body.email, Password |-> body.password]

\* Register as far as the service: the bound body, mapped and created
RegisterCreate(us, body, uuid, up) ==
    Create(us, FromUserRequest(BindUserRequest(body).Email, BindUserRequest(body).Password),
           uuid, up)

\* A forged token: well formed, signed by someone who lacks the server's keys
Forged == Token("attacker-key", "u1", "a@x.com", <<"admin">>, NoTime, NoTime, NoTime, "u1")

\* a token pair as a client received it from login or from refresh
Pair(via, access, refresh) == [via |-> via, access |-> access, refresh |-> refresh]

Held == { p.access : p \in issued } \cup { p.refresh : p \in issued }

\* what a client can put where a token is expected
Presentable == Held \cup {Malformed, Forged}

\* a client keeps the pairs it is given while it has room for them
Remember(held, pair) ==
    IF Cardinality(held \cup {pair}) <= MaxIssued THEN held \cup {pair} ELSE held

NoTokenGiven == "Token de atualização não fornecido"

\* UserController.RefreshToken: the status and the body of the answer
RefreshToken(s, us, bl, presented, n, up) ==
    LET r == RefreshTokens(s, us, bl, presented, n, up) IN
    IF presented = NoToken
    THEN GinHandleError(WithMessage(ErrBadRequest, NoTokenGiven))
         @@ [access |-> NoToken, refresh |-> NoToken, blacklist |-> bl]
    ELSE IF r.err # NoError
    THEN GinHandleError(r.err)
         @@ [access |-> NoToken, refresh |-> NoToken, blacklist |-> r.blacklist]
    ELSE [status |-> StatusOK, message |-> "", access |-> r.access, refresh |-> r.refresh,
          blacklist |-> r.blacklist]

\* UserController.Login: the status and the body of the answer
LoginAnswer(s, us, email, password, n, up) ==
    LET r == Authenticate(s, us, email, password, n, up) IN
    IF r.err # NoError
    THEN GinHandleError(r.err) @@ [access |-> NoToken, refresh |-> NoToken]
    ELSE [status |-> StatusOK, message |-> "", access |-> r.access, refresh |-> r.refresh]

\* UserController.Register: the status of the answer and the table after it
RegisterAnswer(us, email, password, uuid, up) ==
    LET r == Create(us, FromUserRequest(email, password), uuid, up) IN
    IF r.err # NoError
    THEN GinHandleError(r.err) @@ [users |-> us]
    ELSE [status |-> StatusCreated, message |-> "", users |-> r.users]

LoggedOut == "Logout realizado com sucesso"

\* Logout registered on the public group, with no gate before it
LogoutAnswer_Public(s, bl, header, presented, n) ==
    IF presented = NoToken
    THEN GinHandleError(WithMessage(ErrBadRequest, NoTokenGiven)) @@ [blacklist |-> bl]
    ELSE [status |-> StatusOK, message |-> LoggedOut,
          blacklist |-> BlacklistRefreshToken(bl, presented)]

\* a Logout that consumes only a valid refresh token of the caller
LogoutAnswer_OwnToken(s, bl, header, presented, n) ==
    LET gate == GinAuthenticate(s, header, NoKeys, n)
        v == ValidateRefreshToken(s, presented, n)
    IN
    IF gate.abort
    THEN [status |-> gate.status, message |-> gate.message, blacklist |-> bl]
    ELSE IF presented = NoToken
    THEN GinHandleError(WithMessage(ErrBadRequest, NoTokenGiven)) @@ [blacklist |-> bl]
    ELSE IF ~v.valid \/ v.claims.Subject # gate.keys.user_id
    THEN GinHandleError(ErrUnauthorized) @@ [blacklist |-> bl]
    ELSE [status |-> StatusOK, message |-> LoggedOut,
          blacklist |-> BlacklistRefreshToken(bl, presented)]

\* UserController.Logout behind GinAuthenticate
LogoutAnswer(s, bl, header, presented, n) ==
    LET gate == GinAuthenticate(s, header, NoKeys, n) IN
    IF gate.abort
    THEN [status |-> gate.status, message |-> gate.message, blacklist |-> bl]
    ELSE IF presented = NoToken
    THEN GinHandleError(WithMessage(ErrBadRequest, NoTokenGiven)) @@ [blacklist |-> bl]
    ELSE [status |-> StatusOK, message |-> LoggedOut,
          blacklist |-> BlacklistRefreshToken(bl, presented)]

IdleCodec == tok = NoToken /\ subject = NoSubject /\ vres = NoVres

IdleGate == req = <<>> /\ ctx = <<>>

IdleCalls == pc = <<>> /\ loc = <<>>

\* a fresh deployment: main has stored the default admin in an empty table
Init ==
    /\ jwt \in SystemJWTServices
    /\ now = 0
    /\ users = Bootstrap(<<>>, NewUUID(0))
    /\ nextId = 1
    /\ blacklist = {}
    /\ issued = {}
    /\ exchanged = {} /\ loggedOut = {}
    /\ IdleCalls /\ IdleCodec /\ IdleGate

ServerOnly == UNCHANGED <<jwt, pc, loc, tok, subject, vres, req, ctx>>

\* The requests below are served with the store up: one served while the
\* store is down is answered with an error and changes nothing.

\* POST /users/register -> UserController.Register
Register ==
    \E email \in Emails \cup {DefaultAdminEmail}, password \in {"pw1", TooLong} :
        LET r == RegisterAnswer(users, email, password, NewUUID(nextId), TRUE) IN
        /\ r.status = StatusCreated => nextId <= MaxUsers
        /\ users' = r.users
        /\ nextId' = IF r.status = StatusCreated THEN nextId + 1 ELSE nextId
        /\ UNCHANGED <<now, blacklist, issued, exchanged, loggedOut>>
        /\ ServerOnly

\* the logins tried: a registered password, another one, the default admin's
Credentials == (Emails \X Passwords) \cup {<<DefaultAdminEmail, DefaultAdminPassword>>}

\* POST /users/login -> UserController.Login
Login ==
    \E c \in Credentials :
        LET r == LoginAnswer(jwt, users, c[1], c[2], now, TRUE) IN
        /\ issued' = IF r.status = StatusOK
                     THEN Remember(issued, Pair("login", r.access, r.refresh)) ELSE issued
        /\ UNCHANGED <<now, users, nextId, blacklist, exchanged, loggedOut>>
        /\ ServerOnly

\* POST /users/refresh -> UserController.RefreshToken
Refresh ==
    \E presented \in Presentable \cup {NoToken} :
        LET r == RefreshToken(jwt, users, blacklist, presented, now, TRUE) IN
        /\ blacklist' = r.blacklist
        /\ issued' = IF r.status = StatusOK
                     THEN Remember(issued, Pair("refresh", r.access, r.refresh)) ELSE issued
        /\ exchanged' = IF r.status = StatusOK THEN exchanged \cup {presented} ELSE exchanged
        /\ UNCHANGED <<now, users, nextId, loggedOut>>
        /\ ServerOnly

\* what a client sends as the refresh_token of a logout
LogoutBodies == { p.refresh : p \in issued } \cup {Malformed, NoToken}

\* the Authorization headers tried on a protected route
Headers == {NoHeader, Bearer(Forged)} \cup { Bearer(p.access) : p \in issued }

\* POST /users/logout -> GinAuthenticate, UserController.Logout
Logout ==
    \E header \in Headers, presented \in LogoutBodies :
        LET r == LogoutAnswer(jwt, blacklist, header, presented, now) IN
        /\ blacklist' = r.blacklist
        /\ loggedOut' = IF r.status = StatusOK THEN loggedOut \cup {presented} ELSE loggedOut
        /\ UNCHANGED <<now, users, nextId, issued, exchanged>>
        /\ ServerOnly

\* time passes between two requests
Tick ==
    /\ now < MaxTime
    /\ now' = now + 1
    /\ UNCHANGED <<users, nextId, blacklist, issued, exchanged, loggedOut>>
    /\ ServerOnly

Next ==
    \/ Register
    \/ Login
    \/ Refresh
    \/ Logout
    \/ Tick

Spec == Init /\ [][Next]_vars

\* ====================================================== claims: token codec
\* the lifetime, in hours, the service gave the token under test
SubjectTTL == IF subject.kind = "access" THEN jwt.expirationTime ELSE jwt.refreshExpTime

\* C8: a token validated strictly before its expiry is accepted and yields the
\* claims of the user it was generated for: id, e-mail and roles for an access
\* token through ValidateToken, the subject for a refresh token through
\* ValidateRefreshToken.
C8_RoundTrip ==
    /\ (vres.op = "ValidateToken" /\ subject.kind = "access" /\ vres.at < tok.exp)
        => /\ vres.valid
           /\ vres.claims.UserID = subject.user.ID
           /\ vres.claims.Email = subject.user.Email
           /\ vres.claims.Roles = subject.user.Roles
    /\ (vres.op = "ValidateRefreshToken" /\ subject.kind = "refresh" /\ vres.at < tok.exp)
        => /\ vres.valid
           /\ vres.claims.Subject = subject.user.ID

\* an access token of a two-role user, validated some time after it was issued
C8_Witness ==
    /\ vres.op = "ValidateToken" /\ subject.kind = "access"
    /\ subject.at < vres.at /\ vres.at < tok.exp
    /\ subject.user.Roles = <<"user", "admin">>
    /\ vres.valid

\* C9: no validation at or after issuance + TTL hours accepts the token; with
\* TTL 0 that is every validation from the moment of issuance on.
C9_ExpiresAfterTTL ==
    (vres.op # "none" /\ vres.at >= subject.at + Hour * SubjectTTL) => ~vres.valid

\* a TTL-0 access token rejected in the very tick it was issued in
C9_Witness ==
    /\ subject.kind = "access" /\ jwt.expirationTime = 0
    /\ vres.op = "ValidateToken" /\ vres.at = subject.at
    /\ ~vres.valid


\* =================================================== claims: the server
\* the refresh token is still unexpired and the user it names is stored
Live(R) ==
    /\ ValidateRefreshToken(jwt, R, now).valid
    /\ RepoGetByID(users, R.sub, TRUE).user # NoUser

\* C1: once RefreshTokens(R) has succeeded, RefreshTokens(R) fails with
\* Unauthorized (401) in every later state, whether or not R has expired.
C1_SingleUse ==
    \A R \in exchanged : \A up \in BOOLEAN :
        /\ RefreshTokens(jwt, users, blacklist, R, now, up).err.Code = StatusUnauthorized
        /\ RefreshToken(jwt, users, blacklist, R, now, up).status = StatusUnauthorized

\* an exchanged refresh token that is still unexpired, of a stored user, refused
C1_Witness ==
    \E R \in exchanged :
        /\ Live(R)
        /\ RefreshTokens(jwt, users, blacklist, R, now, TRUE).err
               = WithMessage(ErrUnauthorized, AlreadyUsed)

\* C3: once a Logout carrying R has been answered with success,
\* RefreshTokens(R) fails with Unauthorized (401) in every later state.
C3_LogoutRevokes ==
    \A R \in loggedOut : \A up \in BOOLEAN :
        /\ RefreshTokens(jwt, users, blacklist, R, now, up).err.Code = StatusUnauthorized
        /\ RefreshToken(jwt, users, blacklist, R, now, up).status = StatusUnauthorized

\* a logged-out refresh token, still unexpired and never exchanged, refused
C3_Witness ==
    \E R \in loggedOut \ exchanged :
        /\ Live(R)
        /\ RefreshTokens(jwt, users, blacklist, R, now, TRUE).err.Code = StatusUnauthorized

AllEmails == Emails \cup {DefaultAdminEmail}
AllPasswords == Passwords \cup {DefaultAdminPassword, TooLong}

\* email is stored and password is not the password of its row
WrongPassword(email, password) ==
    /\ HasEmail(users, email)
    /\ ~CompareHashAndPassword(RepoGetByEmail(users, email, TRUE).user.Password, password)

\* C6: a login with an email that is not stored and a login with a stored
\* email and a wrong password get the same error (code, message, wrapped
\* error) from Authenticate and the same answer from the Login handler.
C6_NoAccountOracle ==
    \A e1 \in AllEmails, e2 \in AllEmails, p1 \in AllPasswords, p2 \in AllPasswords :
        (~HasEmail(users, e1) /\ WrongPassword(e2, p2))
        => /\ Authenticate(jwt, users, e1, p1, now, TRUE)
                = Authenticate(jwt, users, e2, p2, now, TRUE)
           /\ Authenticate(jwt, users, e1, p1, now, TRUE).err = ErrInvalidCredentials
           /\ LoginAnswer(jwt, users, e1, p1, now, TRUE)
                = LoginAnswer(jwt, users, e2, p2, now, TRUE)

\* a registered user whose password is pw1 refused with pw2, and an email
\* nobody registered
C6_Witness ==
    \E e1 \in Emails, e2 \in Emails :
        /\ ~HasEmail(users, e1)
        /\ CompareHashAndPassword(RepoGetByEmail(users, e2, TRUE).user.Password, "pw1")
        /\ LoginAnswer(jwt, users, e2, "pw2", now, TRUE).status = StatusUnauthorized
        /\ LoginAnswer(jwt, users, e1, "pw1", now, TRUE).status = StatusUnauthorized

\* C7: a successful RefreshTokens(R), for a pair (A, R) that a login
\* returned, returns an access token other than A and a refresh token other
\* than R, also within the second of the login.
C7_FreshPair ==
    \A p \in issued :
        LET r == RefreshTokens(jwt, users, blacklist, p.refresh, now, TRUE) IN
        (p.via = "login" /\ r.err = NoError)
        => (r.access # p.access /\ r.refresh # p.refresh)

GinAuthenticateName == "GinAuthenticate"
GinRequireRoleName == "GinRequireRole"
AuthenticateName == "Authenticate"
RequireRoleName == "RequireRole"
HandlerName == "handler"

\* the chains the routes and the middleware tests build, and the chain of a
\* route that is given the role gate without the authentication gate
\* an /admin route whose group was given the role gate first
AdminChain_RoleFirst == <<GinRequireRoleName, GinAuthenticateName, HandlerName>>

\* adminRoutes.Use(GinAuthenticate(), GinRequireRole("admin")) and the action
AdminChain == <<GinAuthenticateName, GinRequireRoleName, HandlerName>>

AdminRole == "admin"

Chains ==
    { <<GinAuthenticateName, HandlerName>>,
      AdminChain,
      <<GinRequireRoleName, HandlerName>>,
      <<AuthenticateName, HandlerName>>,
      <<AuthenticateName, RequireRoleName, HandlerName>>,
      <<RequireRoleName, HandlerName>> }

GateRoles == {"admin", "user"}

GateUsers == { User("u1", "a@x.com", NoPassword, r) : r \in RoleLists }

\* the tokens a client may hold at time 0, and two it may have made up
GateTokens(s) ==
    { GenerateToken(s, u, 0, 0, 0) : u \in GateUsers }
        \cup {GenerateRefreshToken(s, "u1", 0), Malformed, Forged}

GateHeaders(s) ==
    { Bearer(t) : t \in GateTokens(s) }
        \cup { NoHeader,
               Header(1, "Bearer", NoToken),
               Header(2, "bearer", GenerateToken(s, User("u1", "a@x.com", NoPassword, <<"admin">>), 0, 0, 0)),
               Header(2, "Token", GenerateToken(s, User("u1", "a@x.com", NoPassword, <<"admin">>), 0, 0, 0)),
               Header(3, "Bearer", GenerateToken(s, User("u1", "a@x.com", NoPassword, <<"admin">>), 0, 0, 0)) }

\* gin.Context of a request no handler has seen
NewContext ==
    [keys |-> NoKeys, values |-> NoValues, aborted |-> FALSE, status |-> 0,
     message |-> "", trace |-> <<>>, authAt |-> NoTime]

InitGate ==
    /\ jwt \in JWTServices
    /\ now = 0
    /\ \E header \in GateHeaders(jwt), chain \in Chains, role \in GateRoles :
           req = [header |-> header, chain |-> chain, role |-> role, index |-> 1]
    /\ ctx = NewContext
    /\ IdleServer /\ IdleCodec

GateOnly == UNCHANGED <<jwt, users, nextId, blacklist, issued, exchanged,
                        loggedOut, pc, loc, tok, subject, vres>>

\* the handler gin runs next
Pending(name) ==
    /\ ~ctx.aborted
    /\ req.index <= Len(req.chain)
    /\ req.chain[req.index] = name

\* the context after the pending handler returned r
After(name, r) ==
    [ctx EXCEPT !.keys = r.keys, !.aborted = r.abort,
                !.status = IF r.abort THEN r.status ELSE @,
                !.message = IF r.abort THEN r.message ELSE @,
                !.trace = Append(@, name)]

StepGinAuthenticate ==
    /\ Pending(GinAuthenticateName)
    /\ ctx' = [After(GinAuthenticateName, GinAuthenticate(jwt, req.header, ctx.keys, now))
                  EXCEPT !.authAt = now]
    /\ req' = [req EXCEPT !.index = @ + 1]
    /\ UNCHANGED now
    /\ GateOnly

StepGinRequireRole ==
    /\ Pending(GinRequireRoleName)
    /\ ctx' = After(GinRequireRoleName, GinRequireRole(ctx.keys, req.role))
    /\ req' = [req EXCEPT !.index = @ + 1]
    /\ UNCHANGED now
    /\ GateOnly

\* the context after the pending net/http middleware returned r: a
\* middleware that does not call next.ServeHTTP ends the request
AfterHTTP(name, r) ==
    [ctx EXCEPT !.values = r.values, !.aborted = r.abort,
                !.status = IF r.abort THEN r.status ELSE @,
                !.message = IF r.abort THEN r.message ELSE @,
                !.trace = Append(@, name)]

StepAuthenticate ==
    /\ Pending(AuthenticateName)
    /\ ctx' = [AfterHTTP(AuthenticateName, HTTPAuthenticate(jwt, req.header, ctx.values, now))
                  EXCEPT !.authAt = now]
    /\ req' = [req EXCEPT !.index = @ + 1]
    /\ UNCHANGED now
    /\ GateOnly

StepRequireRole ==
    /\ Pending(RequireRoleName)
    /\ ctx' = AfterHTTP(RequireRoleName, HTTPRequireRole(ctx.values, req.role))
    /\ req' = [req EXCEPT !.index = @ + 1]
    /\ UNCHANGED now
    /\ GateOnly

\* the route's handler: c.String(200, "ok")
StepHandler ==
    /\ Pending(HandlerName)
    /\ ctx' = [ctx EXCEPT !.status = StatusOK, !.message = "ok",
                          !.trace = Append(@, HandlerName)]
    /\ req' = [req EXCEPT !.index = @ + 1]
    /\ UNCHANGED now
    /\ GateOnly

\* time passes before the request reaches the server
GateTick ==
    /\ now < MaxTime
    /\ ctx.trace = <<>>
    /\ now' = now + 1
    /\ UNCHANGED <<req, ctx>>
    /\ GateOnly

NextGate ==
    \/ StepGinAuthenticate
    \/ StepGinRequireRole
    \/ StepAuthenticate
    \/ StepRequireRole
    \/ StepHandler
    \/ GateTick

SpecGate == InitGate /\ [][NextGate]_vars

\* ----------------------------------------------- claims: the two gates
Ran(name) == \E i \in 1..Len(ctx.trace) : ctx.trace[i] = name

InChain(name) == \E i \in 1..Len(req.chain) : req.chain[i] = name

\* the header is "Bearer <t>" and t is signed with the access key and
\* unexpired when GinAuthenticate reads it
GoodBearer ==
    /\ req.header.parts = 2
    /\ req.header.scheme = "Bearer"
    /\ req.header.token.sig = jwt.secretKey
    /\ ctx.authAt < req.header.token.exp

Rejected(status) == ctx.aborted /\ ctx.status = status /\ ~Ran(HandlerName)

\* C4: behind GinAuthenticate the handler runs only for a header
\* "Bearer <t>" whose t is correctly signed and unexpired, and then the
\* context holds t's id, email and roles; a missing header and an invalid
\* or expired token are answered 401 and the chain is aborted.
C4_GateA ==
    /\ (Ran(GinAuthenticateName) /\ Ran(HandlerName))
        => /\ GoodBearer
           /\ ctx.keys = [has_user_id |-> TRUE, user_id |-> req.header.token.user_id,
                          user_email |-> req.header.token.email,
                          has_roles |-> TRUE, roles |-> req.header.token.roles]
    /\ (Ran(GinAuthenticateName) /\ req.header = NoHeader)
        => Rejected(StatusUnauthorized)
    /\ (Ran(GinAuthenticateName) /\ req.header.parts = 2
            /\ req.header.scheme = "Bearer" /\ ~GoodBearer)
        => Rejected(StatusUnauthorized)

\* a token with roles reaches the handler, after some time has passed
C4_Witness ==
    /\ Ran(GinAuthenticateName) /\ Ran(HandlerName)
    /\ ctx.authAt > 0
    /\ ctx.keys.roles = <<"user", "admin">>
    /\ ctx.keys.user_id = "u1"

\* an expired token of the right key is refused
C4_WitnessExpired ==
    /\ Ran(GinAuthenticateName)
    /\ req.header.parts = 2 /\ req.header.token.sig = jwt.secretKey
    /\ ctx.authAt >= req.header.token.exp
    /\ Rejected(StatusUnauthorized)

RoleSet(roles) == { roles[i] : i \in 1..Len(roles) }

\* C5: after GinRequireRole(role) the chain goes on exactly when the
\* context holds roles and role is one of them; otherwise the answer is 403
\* and the chain is aborted.
C5_GateB ==
    Ran(GinRequireRoleName)
    => IF ctx.keys.has_roles /\ req.role \in RoleSet(ctx.keys.roles)
       THEN ~ctx.aborted
       ELSE Rejected(StatusForbidden)

\* roles {user} on a route that requires admin: 403
C5_Witness ==
    /\ Ran(GinAuthenticateName) /\ Ran(GinRequireRoleName)
    /\ ctx.keys.roles = <<"user">> /\ req.role = "admin"
    /\ Rejected(StatusForbidden)

\* roles {admin} on a route that requires admin: the handler runs
C5_WitnessAdmin ==
    /\ Ran(GinRequireRoleName) /\ Ran(HandlerName)
    /\ ctx.keys.roles = <<"admin">> /\ req.role = "admin"
    /\ ctx.status = StatusOK

\* the role gate without the authentication gate: 403
C5_WitnessSkipped ==
    /\ ~InChain(GinAuthenticateName) /\ Ran(GinRequireRoleName)
    /\ req.header.token.roles = <<"admin">> /\ req.role = "admin"
    /\ Rejected(StatusForbidden)

\* ===================== RefreshTokens calls that run at the same time
\* Each POST /users/refresh runs in a goroutine of its own; RefreshTokens
\* takes no lock, so the steps of two calls interleave.  The blacklist is a
\* plain Go map: a read or a write that overlaps a write is a data race,
\* which the runtime may stop with a fatal error or may let through.
NumCalls == 2

Calls == 1..NumCalls

ConcEmail == "a@x.com"
ConcPassword == "pw1"

\* the table after the default admin was stored and one user registered
ConcUsers ==
    Create(Bootstrap(<<>>, NewUUID(0)), FromUserRequest(ConcEmail, ConcPassword),
           NewUUID(1), TRUE).users

NewCall(presented) ==
    [presented |-> presented, sub |-> "", user |-> NoUser,
     access |-> NoToken, refresh |-> NoToken, err |-> NoError]

\* every call presents the refresh token of the one login at time 0
InitConc ==
    /\ jwt \in SystemJWTServices
    /\ now = 0
    /\ users = ConcUsers
    /\ nextId = 2
    /\ blacklist = {}
    /\ LET a == Authenticate(jwt, ConcUsers, ConcEmail, ConcPassword, 0, TRUE) IN
           /\ issued = {Pair("login", a.access, a.refresh)}
           /\ loc = [p \in Calls |-> NewCall(a.refresh)]
    /\ pc = [p \in Calls |-> "check"]
    /\ exchanged = {} /\ loggedOut = {}
    /\ IdleCodec /\ IdleGate

ConcOnly == UNCHANGED <<jwt, nextId, issued, exchanged, loggedOut,
                        tok, subject, vres, req, ctx>>

\* another call is in the middle of its write to the map
Writing(p) == \E q \in Calls : q # p /\ pc[q] = "marking"

Return(p, e) ==
    /\ pc' = [pc EXCEPT ![p] = "done"]
    /\ loc' = [loc EXCEPT ![p].err = e]

\* fatal error: concurrent map read and map write / concurrent map writes
Crash ==
    /\ pc' = [p \in Calls |-> "crashed"]
    /\ UNCHANGED loc

\* if _, blacklisted := refreshTokenBlacklist[refreshToken]; blacklisted
ConcCheck(p) ==
    /\ pc[p] = "check"
    /\ \/ /\ ~Writing(p)
          /\ IF loc[p].presented \in blacklist
             THEN Return(p, WithMessage(ErrUnauthorized, AlreadyUsed))
             ELSE pc' = [pc EXCEPT ![p] = "validate"] /\ UNCHANGED loc
       \/ /\ Writing(p)
          /\ \/ Crash
             \/ Return(p, WithMessage(ErrUnauthorized, AlreadyUsed))
             \/ pc' = [pc EXCEPT ![p] = "validate"] /\ UNCHANGED loc
    /\ UNCHANGED <<now, users, blacklist>>
    /\ ConcOnly

\* claims, err := s.jwtService.ValidateRefreshToken(refreshToken)
ConcValidate(p) ==
    /\ pc[p] = "validate"
    /\ LET v == ValidateRefreshToken(jwt, loc[p].presented, now) IN
       IF ~v.valid
       THEN Return(p, WithError(ErrUnauthorized, ParseFailure))
       ELSE /\ pc' = [pc EXCEPT ![p] = "load"]
            /\ loc' = [loc EXCEPT ![p].sub = v.claims.Subject]
    /\ UNCHANGED <<now, users, blacklist>>
    /\ ConcOnly

\* user, err := s.repo.GetByID(claims.Subject)
ConcLoad(p) ==
    /\ pc[p] = "load"
    /\ LET found == RepoGetByID(users, loc[p].sub, TRUE) IN
       IF found.err \/ found.user = NoUser
       THEN Return(p, ErrUserNotFound)
       ELSE /\ pc' = [pc EXCEPT ![p] = "issue"]
            /\ loc' = [loc EXCEPT ![p].user = found.user]
    /\ UNCHANGED <<now, users, blacklist>>
    /\ ConcOnly

\* GenerateToken(user), GenerateRefreshToken(user.ID)
ConcIssue(p) ==
    /\ pc[p] = "issue"
    /\ pc' = [pc EXCEPT ![p] = "mark"]
    /\ loc' = [loc EXCEPT ![p].access = GenerateToken(jwt, loc[p].user, now, now, now),
                          ![p].refresh = GenerateRefreshToken(jwt, loc[p].user.ID, now)]
    /\ UNCHANGED <<now, users, blacklist>>
    /\ ConcOnly

\* refreshTokenBlacklist[refreshToken] = struct{}{}: the write begins
ConcMark(p) ==
    /\ pc[p] = "mark"
    /\ \/ pc' = [pc EXCEPT ![p] = "marking"] /\ UNCHANGED loc
       \/ Writing(p) /\ Crash
    /\ UNCHANGED <<now, users, blacklist>>
    /\ ConcOnly

\* the write ends and the call returns the pair
ConcReturn(p) ==
    /\ pc[p] = "marking"
    /\ blacklist' = blacklist \cup {loc[p].presented}
    /\ Return(p, NoError)
    /\ UNCHANGED <<now, users>>
    /\ ConcOnly

\* DELETE /admin/users/:id served while the calls run
ConcDelete ==
    /\ \E id \in DOMAIN users : users' = RepoDelete(users, id, TRUE).users
    /\ UNCHANGED <<now, blacklist, pc, loc>>
    /\ ConcOnly

ConcTick ==
    /\ now < MaxTime
    /\ now' = now + 1
    /\ UNCHANGED <<users, blacklist, pc, loc>>
    /\ ConcOnly

NextConc ==
    \/ \E p \in Calls :
          \/ ConcCheck(p)
          \/ ConcValidate(p)
          \/ ConcLoad(p)
          \/ ConcIssue(p)
          \/ ConcMark(p)
          \/ ConcReturn(p)
    \/ ConcDelete
    \/ ConcTick

SpecConc == InitConc /\ [][NextConc]_vars

\* --------------------------------------- claims: calls at the same time
Returned(p) == pc[p] = "done" /\ loc[p].err = NoError

\* C2: of two calls that present the same refresh token at most one
\* returns a token pair, however their steps interleave.
C2_AtMostOnePair ==
    \A p \in Calls, q \in Calls :
        (p # q /\ loc[p].presented = loc[q].presented /\ Returned(p)) => ~Returned(q)


\* ------------------------------------- claims: the shape of the header
\* the header is not empty and is not two parts of which the first is "Bearer"
BadShape ==
    /\ req.header # NoHeader
    /\ (req.header.parts # 2 \/ req.header.scheme # "Bearer")

\* C11: GinAuthenticate and Authenticate answer a non-empty Authorization
\* header that is not "Bearer <token>" with 400, and the handler behind
\* them is not run.
C11_BadFormat ==
    ((Ran(GinAuthenticateName) \/ Ran(AuthenticateName)) /\ BadShape)
    => /\ Rejected(StatusBadRequest)
       /\ ctx.message = BadFormat

\* "Bearer" alone through the net/http middleware
C11_Witness ==
    /\ Ran(AuthenticateName)
    /\ req.header = Header(1, "Bearer", NoToken)
    /\ Rejected(StatusBadRequest)

\* "Token x", x a valid token, through the Gin middleware
C11_WitnessGin ==
    /\ Ran(GinAuthenticateName)
    /\ req.header.scheme = "Token" /\ req.header.token.sig = jwt.secretKey
    /\ Rejected(StatusBadRequest)


\* ------------------------------------------ claims: the /admin routes
\* the request is for a route of the /admin group
AdminRoute == req.chain = AdminChain /\ req.role = AdminRole

\* C12: on an /admin route the handlers run in the order of the chain,
\* GinAuthenticate before GinRequireRole(admin); a request without a token
\* or with an invalid token is answered 401, 403 is answered only to a
\* valid token without the role admin, and the action runs only for a valid
\* token whose roles contain admin.
C12_AdminRoutes ==
    AdminRoute
    => /\ ctx.trace = SubSeq(AdminChain, 1, Len(ctx.trace))
       /\ (ctx.trace # <<>> /\ ~BadShape /\ ~GoodBearer)
            => /\ ctx.trace = <<GinAuthenticateName>>
               /\ Rejected(StatusUnauthorized)
       /\ ctx.status = StatusForbidden
            => /\ Ran(GinAuthenticateName) /\ GoodBearer
               /\ AdminRole \notin RoleSet(req.header.token.roles)
       /\ (Ran(GinRequireRoleName) /\ AdminRole \notin RoleSet(req.header.token.roles))
            => Rejected(StatusForbidden)
       /\ Ran(HandlerName)
            => /\ GoodBearer
               /\ AdminRole \in RoleSet(req.header.token.roles)
               /\ ctx.trace = AdminChain

\* a valid token with roles <<user>> is stopped by the second gate with 403
C12_Witness ==
    /\ AdminRoute
    /\ ctx.trace = <<GinAuthenticateName, GinRequireRoleName>>
    /\ GoodBearer /\ req.header.token.roles = <<"user">>
    /\ Rejected(StatusForbidden)

\* no token: 401 from the first gate, the second gate never runs
C12_WitnessNoToken ==
    /\ AdminRoute /\ req.header = NoHeader
    /\ ctx.trace = <<GinAuthenticateName>> /\ Rejected(StatusUnauthorized)

\* an admin's token reaches the action
C12_WitnessAdmin ==
    /\ AdminRoute /\ ctx.trace = AdminChain
    /\ req.header.token.roles = <<"user", "admin">> /\ ctx.status = StatusOK


\* ================================ the server with its /admin routes
\* the two gates of the /admin group, at time n
AdminGates(s, header, n) ==
    LET a == GinAuthenticate(s, header, NoKeys, n) IN
    IF a.abort THEN a ELSE GinRequireRole(a.keys, AdminRole)

\* the body of PUT /admin/users/:id: email is "" when the field is left
\* out, has_roles tells whether roles was given
UpdateData(email, has_roles, roles) ==
    [email |-> email, has_roles |-> has_roles, roles |-> roles]

\* an Update routed without the gates that writes the roles it is given
AdminUpdateAnswer_Open(s, us, header, id, data, n) ==
    LET current == GetByID(us, id, TRUE)
        edited == [current.user EXCEPT
                      !.Email = IF data.email # "" THEN data.email ELSE @,
                      !.Roles = IF data.has_roles THEN data.roles ELSE @]
        u == Update(us, edited, TRUE, TRUE)
    IN  IF current.err # NoError
        THEN GinHandleError(current.err) @@ [user |-> NoUser, users |-> us]
        ELSE IF u.err # NoError
        THEN GinHandleError(u.err) @@ [user |-> NoUser, users |-> us]
        ELSE [status |-> StatusOK, message |-> "", user |-> edited,
              users |-> [u.users EXCEPT ![id].Roles = edited.Roles]]

\* AdminController.Update behind the two gates: the status of the answer,
\* the user in its body and the table after it
AdminUpdateAnswer(s, us, header, id, data, n) ==
    LET gate == AdminGates(s, header, n)
        current == GetByID(us, id, TRUE)
        edited == [current.user EXCEPT
                      !.Email = IF data.email # "" THEN data.email ELSE @,
                      !.Roles = IF data.has_roles THEN data.roles ELSE @]
        u == Update(us, edited, TRUE, TRUE)
    IN  IF gate.abort
        THEN [status |-> gate.status, message |-> gate.message, user |-> NoUser, users |-> us]
        ELSE IF current.err # NoError
        THEN GinHandleError(current.err) @@ [user |-> NoUser, users |-> us]
        ELSE IF u.err # NoError
        THEN GinHandleError(u.err) @@ [user |-> NoUser, users |-> us]
        ELSE [status |-> StatusOK, message |-> "", user |-> edited, users |-> u.users]

\* UserController.Update, which no route of UserRoutes.Setup serves and the
\* tests mount without a gate: the body carries email and name only
UserUpdateAnswer(us, id, email) ==
    LET current == GetByID(us, id, TRUE)
        edited == [current.user EXCEPT !.Email = IF email # "" THEN email ELSE @]
        u == Update(us, edited, TRUE, TRUE)
    IN  IF current.err # NoError
        THEN GinHandleError(current.err) @@ [user |-> NoUser, users |-> us]
        ELSE IF u.err # NoError
        THEN GinHandleError(u.err) @@ [user |-> NoUser, users |-> us]
        ELSE [status |-> StatusOK, message |-> "", user |-> edited, users |-> u.users]

Deleted == "Usuário deletado com sucesso"

\* AdminController.Delete behind the two gates
AdminDeleteAnswer(s, us, header, id, n) ==
    LET gate == AdminGates(s, header, n)
        d == Delete(us, id, TRUE, TRUE)
    IN  IF gate.abort
        THEN [status |-> gate.status, message |-> gate.message, users |-> us]
        ELSE IF d.err # NoError
        THEN GinHandleError(d.err) @@ [users |-> us]
        ELSE [status |-> StatusOK, message |-> Deleted, users |-> d.users]

MaxKept == 2

\* a client of this server keeps the pairs it is given while it has room
Keep(held, pair) ==
    IF Cardinality(held \cup {pair}) <= MaxKept THEN held \cup {pair} ELSE held

\* a deployment in which one user has registered; as in main, the refresh
\* token lives at least as long as the access token
InitAdmin ==
    /\ jwt \in { s \in SystemJWTServices : s.expirationTime <= s.refreshExpTime }
    /\ now = 0
    /\ users = ConcUsers
    /\ nextId = 2
    /\ blacklist = {}
    /\ issued = {}
    /\ exchanged = {} /\ loggedOut = {}
    /\ IdleCalls /\ IdleCodec /\ IdleGate

\* POST /users/login with the password the user registered with
AdmLogin ==
    \E u \in Stored(users) :
        LET r == LoginAnswer(jwt, users, u.Email, u.Password.of, now, TRUE) IN
        /\ r.status = StatusOK
        /\ issued' = Keep(issued, Pair("login", r.access, r.refresh))
        /\ UNCHANGED <<now, users, nextId, blacklist, exchanged, loggedOut>>
        /\ ServerOnly

\* POST /users/refresh with a refresh token the client holds
AdmRefresh ==
    \E p \in issued :
        LET r == RefreshToken(jwt, users, blacklist, p.refresh, now, TRUE) IN
        /\ blacklist' = r.blacklist
        /\ issued' = IF r.status = StatusOK
                     THEN Keep(issued, Pair("refresh", r.access, r.refresh)) ELSE issued
        /\ exchanged' = IF r.status = StatusOK THEN exchanged \cup {p.refresh} ELSE exchanged
        /\ UNCHANGED <<now, users, nextId, loggedOut>>
        /\ ServerOnly

\* POST /users/logout with a pair the client holds
AdmLogout ==
    \E p \in issued :
        LET r == LogoutAnswer(jwt, blacklist, Bearer(p.access), p.refresh, now) IN
        /\ blacklist' = r.blacklist
        /\ loggedOut' = IF r.status = StatusOK THEN loggedOut \cup {p.refresh} ELSE loggedOut
        /\ UNCHANGED <<now, users, nextId, issued, exchanged>>
        /\ ServerOnly

\* the ids asked for: the stored ones and one that was never handed out
AdminTargets == DOMAIN users \cup {"missing"}

NewEmail == "b@x.com"

\* PUT /admin/users/:id
AdminUpdate ==
    \E p \in issued, id \in AdminTargets,
       data \in { UpdateData(e, h, <<"admin", "user">>) : e \in {"", NewEmail}, h \in BOOLEAN } :
        LET r == AdminUpdateAnswer(jwt, users, Bearer(p.access), id, data, now) IN
        /\ users' = r.users
        /\ UNCHANGED <<now, nextId, blacklist, issued, exchanged, loggedOut>>
        /\ ServerOnly

\* DELETE /admin/users/:id
AdminDelete ==
    \E p \in issued, id \in AdminTargets :
        LET r == AdminDeleteAnswer(jwt, users, Bearer(p.access), id, now) IN
        /\ users' = r.users
        /\ UNCHANGED <<now, nextId, blacklist, issued, exchanged, loggedOut>>
        /\ ServerOnly

\* The repository never writes the roles column (Create and Update leave it
\* out), so a row gets roles other than the default only by a write to the
\* table from outside the service: an operator grants or revokes admin for
\* a user who can log in.
StoreSetRoles ==
    \E id \in DOMAIN users, roles \in {<<"admin">>, DefaultRoles} :
        /\ users[id].Password.hashed
        /\ users[id].Roles # roles
        /\ users' = [users EXCEPT ![id].Roles = roles]
        /\ UNCHANGED <<now, nextId, blacklist, issued, exchanged, loggedOut>>
        /\ ServerOnly

NextAdmin ==
    \/ AdmLogin
    \/ AdmRefresh
    \/ AdmLogout
    \/ AdminUpdate
    \/ AdminDelete
    \/ StoreSetRoles
    \/ Tick

SpecAdmin == InitAdmin /\ [][NextAdmin]_vars


\* ------------------------------- claims: tokens and the stored identity
\* C13: the access token a successful RefreshTokens returns carries the id,
\* the email and the roles of the row as it is stored at that moment,
\* whatever the row held when the presented pair was issued.
C13_CurrentIdentity ==
    \A p \in issued :
        LET r == RefreshTokens(jwt, users, blacklist, p.refresh, now, TRUE) IN
        r.err = NoError
        => /\ r.access.user_id = p.refresh.sub
           /\ r.access.email = users[p.refresh.sub].Email
           /\ r.access.roles = users[p.refresh.sub].Roles

\* email and roles of the row have both changed since the pair was issued
C13_Witness ==
    \E p \in issued :
        LET r == RefreshTokens(jwt, users, blacklist, p.refresh, now, TRUE) IN
        /\ r.err = NoError
        /\ p.access.email # r.access.email
        /\ p.access.roles # r.access.roles
        /\ r.access.roles = <<"admin">>

\* what the gates make of access token A at this moment
GateA(A) == GinAuthenticate(jwt, Bearer(A), NoKeys, now)

\* C14: before its expiry an access token passes GinAuthenticate with the
\* id, email and roles it was issued with, and GinRequireRole(role) exactly
\* for the roles it was issued with, whether or not its refresh token was
\* logged out or exchanged and whatever the stored row says by now.
C14_AccessTokenOutlives ==
    \A p \in issued :
        now < p.access.exp
        => /\ ~GateA(p.access).abort
           /\ GateA(p.access).keys
                = [has_user_id |-> TRUE, user_id |-> p.access.user_id,
                   user_email |-> p.access.email,
                   has_roles |-> TRUE, roles |-> p.access.roles]
           /\ \A role \in GateRoles :
                GinRequireRole(GateA(p.access).keys, role).abort
                    <=> role \notin RoleSet(p.access.roles)

\* an admin's access token whose refresh token was logged out and whose row
\* has lost admin since still opens the /admin routes
C14_Witness ==
    \E p \in issued :
        /\ now < p.access.exp /\ now > p.access.iat
        /\ p.refresh \in loggedOut
        /\ p.access.user_id \in DOMAIN users
        /\ p.access.roles = <<"admin">>
        /\ users[p.access.user_id].Roles = DefaultRoles
        /\ ~AdminGates(jwt, Bearer(p.access), now).abort

\* an access token whose refresh token was exchanged and whose user was deleted
C14_WitnessRotated ==
    \E p \in issued :
        /\ now < p.access.exp
        /\ p.refresh \in exchanged
        /\ p.access.user_id \notin DOMAIN users
        /\ ~GateA(p.access).abort


\* ------------------------------------------- claims: registered roles
RegisterBodies ==
    { RegisterBody(e, "pw1", r) : e \in Emails, r \in RoleLists }

\* C15: a user created by Register has the roles <<user>>, in the answer
\* and in the table, whatever roles the body of the request names; every
\* row that was registered has the roles <<user>>.
C15_RegisteredAsUser ==
    /\ \A u \in Stored(users) : u.Password.hashed => u.Roles = <<"user">>
    /\ \A body \in RegisterBodies :
          LET c == RegisterCreate(users, body, NewUUID(nextId), TRUE) IN
          c.err = NoError
          => /\ c.user.Roles = <<"user">>
             /\ c.users[c.user.ID].Roles = <<"user">>
             /\ c.users[c.user.ID].Email = body.email

\* a user is registered, and a body that asks for admin is accepted
C15_Witness ==
    /\ \E u \in Stored(users) : u.Password.hashed
    /\ \E body \in RegisterBodies :
          /\ body.roles = <<"admin">>
          /\ RegisterCreate(users, body, NewUUID(nextId), TRUE).err = NoError


\* ========================================= errors and their answers
\* the texts of wrapped errors: driver, hasher and parser messages
InternalTexts == {RepoFailure, HashFailure, ParseFailure}

PublicErrors ==
    { ErrInternalServer, ErrBadRequest, ErrUnauthorized, ErrForbidden, ErrUserNotFound,
      ErrEmailAlreadyExists, ErrInvalidCredentials, ErrInvalidToken, ErrMissingToken,
      WithMessage(ErrBadRequest, BadFormat), WithMessage(ErrUnauthorized, AlreadyUsed) }

\* the errors a handler may be left with
HandledErrors ==
    PublicErrors
        \cup { WithError(e, t) : e \in PublicErrors, t \in InternalTexts }
        \cup { PlainError(t) : t \in InternalTexts }

NoAnswer == [status |-> 0, message |-> ""]

\* two requests that end in an error each, not yet answered
InitErr ==
    /\ jwt \in SystemJWTServices
    /\ now = 0
    /\ \E e1 \in HandledErrors, e2 \in HandledErrors : req = [e1 |-> e1, e2 |-> e2]
    /\ ctx = [via |-> "none", r1 |-> NoAnswer, r2 |-> NoAnswer]
    /\ IdleServer /\ IdleCodec

\* both are answered by Gin handlers
AnswerGin ==
    /\ ctx.via = "none"
    /\ ctx' = [via |-> "gin", r1 |-> GinHandleError(req.e1), r2 |-> GinHandleError(req.e2)]
    /\ UNCHANGED <<req, now>>
    /\ GateOnly

\* both are answered by net/http handlers
AnswerHTTP ==
    /\ ctx.via = "none"
    /\ ctx' = [via |-> "http", r1 |-> HandleError(req.e1), r2 |-> HandleError(req.e2)]
    /\ UNCHANGED <<req, now>>
    /\ GateOnly

NextErr ==
    \/ AnswerGin
    \/ AnswerHTTP

SpecErr == InitErr /\ [][NextErr]_vars

\* the answer to e is e's code and message, or 500 and the fixed message
Public(e, r) ==
    /\ DOMAIN r = {"status", "message"}
    /\ r.message \notin InternalTexts
    /\ IF IsAppError(e)
       THEN r.status = e.Code /\ r.message = e.Message
       ELSE r.status = StatusInternalServerError /\ r.message = "Erro interno do servidor"

SamePublic(e1, e2) ==
    /\ IsAppError(e1) /\ IsAppError(e2)
    /\ e1.Code = e2.Code /\ e1.Message = e2.Message

\* C16: the answer to an error is made of its code and message alone: two
\* errors with the same code and message get the same answer whatever they
\* wrap, an error that is not an AppError gets 500 with the fixed message,
\* and no text of a wrapped error is in the body.
C16_PublicAnswer ==
    ctx.via # "none"
    => /\ Public(req.e1, ctx.r1)
       /\ Public(req.e2, ctx.r2)
       /\ SamePublic(req.e1, req.e2) => ctx.r1 = ctx.r2

\* the same error with and without a wrapped driver error, answered alike
C16_Witness ==
    /\ ctx.via = "gin"
    /\ req.e1 = WithError(ErrUserNotFound, RepoFailure)
    /\ req.e2 = ErrUserNotFound
    /\ ctx.r1 = ctx.r2
    /\ ctx.r1.status = StatusNotFound

\* an error that is not an AppError, answered by the net/http handler
C16_WitnessPlain ==
    /\ ctx.via = "http"
    /\ req.e1 = PlainError(RepoFailure)
    /\ ctx.r1 = [status |-> StatusInternalServerError, message |-> "Erro interno do servidor"]


\* bad structure, bad signature or past expiry, read off the token itself
BadRefreshToken(t) ==
    \/ t = Malformed
    \/ t.sig # jwt.refreshKey
    \/ now >= t.exp

\* C17: RefreshTokens reports the first failure in a fixed order: a token in
\* the blacklist fails with Unauthorized "already used" whatever else is
\* wrong with it; otherwise a token with bad structure, bad signature or
\* past expiry fails with Unauthorized; otherwise a token whose subject is
\* not stored fails with UserNotFound; otherwise a new pair is issued.  A
\* failed call issues nothing and leaves the blacklist as it was.
C17_CheckOrder ==
    \A t \in Presentable :
        LET r == RefreshTokens(jwt, users, blacklist, t, now, TRUE) IN
        /\ IF t \in blacklist
           THEN r.err = WithMessage(ErrUnauthorized, AlreadyUsed)
           ELSE IF BadRefreshToken(t)
           THEN r.err.Code = StatusUnauthorized /\ r.err.Message = ErrUnauthorized.Message
           ELSE IF t.sub \notin DOMAIN users
           THEN r.err = ErrUserNotFound
           ELSE r.err = NoError /\ r.access # NoToken /\ r.refresh # NoToken
        /\ r.err # NoError
           => r.access = NoToken /\ r.refresh = NoToken /\ r.blacklist = blacklist

\* a logged-out refresh token that has also expired and whose user has been
\* deleted is still reported as already used
C17_Witness ==
    \E p \in issued :
        /\ p.refresh \in blacklist
        /\ now >= p.refresh.exp
        /\ p.refresh.sub \notin DOMAIN users
        /\ RefreshTokens(jwt, users, blacklist, p.refresh, now, TRUE).err
               = WithMessage(ErrUnauthorized, AlreadyUsed)

\* an unexpired, unused refresh token of a deleted user: UserNotFound
C17_WitnessNotFound ==
    \E p \in issued :
        /\ p.refresh \notin blacklist
        /\ ~BadRefreshToken(p.refresh)
        /\ RefreshTokens(jwt, users, blacklist, p.refresh, now, TRUE).err = ErrUserNotFound

\* an expired, unused refresh token of a deleted user: Unauthorized
C17_WitnessExpired ==
    \E p \in issued :
        /\ p.refresh \notin blacklist
        /\ now >= p.refresh.exp
        /\ p.refresh.sub \notin DOMAIN users
        /\ RefreshTokens(jwt, users, blacklist, p.refresh, now, TRUE).err.Code
               = StatusUnauthorized

InternalServer(e) == e.Code = StatusInternalServerError

\* the store fails under Create, GetByID, GetByEmail, Update, Delete,
\* Authenticate and ListAll: each of them reports InternalServer
StoreFailureElsewhere ==
    /\ \A email \in AllEmails, password \in AllPasswords :
        /\ InternalServer(Create(users, FromUserRequest(email, password),
                                 NewUUID(nextId), FALSE).err)
        /\ InternalServer(Authenticate(jwt, users, email, password, now, FALSE).err)
        /\ InternalServer(GetByEmail(users, email, FALSE).err)
    /\ \A id \in AdminTargets :
        /\ InternalServer(GetByID(users, id, FALSE).err)
        /\ \A up2 \in BOOLEAN :
            /\ InternalServer(Delete(users, id, FALSE, up2).err)
            /\ InternalServer(Update(users, User(id, NewEmail, NoPassword, DefaultRoles),
                                     FALSE, up2).err)
    /\ \A id \in DOMAIN users :
        /\ InternalServer(Delete(users, id, TRUE, FALSE).err)
        /\ InternalServer(Update(users, User(id, NewEmail, NoPassword, DefaultRoles),
                                 TRUE, FALSE).err)
    /\ InternalServer(ListAll(users, FALSE).err)

\* C18: when the store fails, every service operation reports InternalServer
\* (500): Create, GetByID, GetByEmail, Update, Delete, Authenticate, ListAll,
\* and RefreshTokens for a token that reaches the lookup of its user.
C18_StoreFailure ==
    /\ StoreFailureElsewhere
    /\ \A t \in Presentable :
        (t \notin blacklist /\ ValidateRefreshToken(jwt, t, now).valid)
        => InternalServer(RefreshTokens(jwt, users, blacklist, t, now, FALSE).err)


\* the ids a caller may ask for: every id handed out so far and one that never was
AskedIDs == { NewUUID(k) : k \in 0..(nextId - 1) } \cup {"missing"}

AskedEmails == AllEmails \cup {NewEmail}

\* C19: GetByID, GetByEmail, Update and Delete of an id or email that is not
\* stored fail with UserNotFound (404) and leave the store as it was; after a
\* successful Delete(id), GetByID(id) fails with UserNotFound.
C19_NotFound ==
    /\ \A id \in AskedIDs \ DOMAIN users :
        /\ GetByID(users, id, TRUE).err = ErrUserNotFound
        /\ \A email \in AskedEmails :
            LET r == Update(users, User(id, email, NoPassword, DefaultRoles), TRUE, TRUE) IN
            r.err = ErrUserNotFound /\ r.users = users
        /\ Delete(users, id, TRUE, TRUE).err = ErrUserNotFound
        /\ Delete(users, id, TRUE, TRUE).users = users
    /\ \A email \in AskedEmails :
        ~HasEmail(users, email) => GetByEmail(users, email, TRUE).err = ErrUserNotFound
    /\ \A id \in DOMAIN users :
        LET d == Delete(users, id, TRUE, TRUE) IN
        /\ d.err = NoError
        /\ GetByID(d.users, id, TRUE).err = ErrUserNotFound
        /\ GetByID(d.users, id, TRUE).user = NoUser
    /\ ErrUserNotFound.Code = StatusNotFound

\* the registered user has been deleted through DELETE /admin/users/:id and
\* is not found any more
C19_Witness ==
    /\ NewUUID(1) \notin DOMAIN users
    /\ GetByID(users, NewUUID(1), TRUE).err = ErrUserNotFound
    /\ Delete(users, NewUUID(1), TRUE, TRUE).err = ErrUserNotFound


\* C20: Create with a password the hasher refuses as too long fails with
\* InternalServer and stores nothing; no row ever holds a hash of such a
\* password or of its first bytes.
C20_TooLongPassword ==
    /\ \A email \in AllEmails :
        LET r == Create(users, FromUserRequest(email, TooLong), NewUUID(nextId), TRUE) IN
        /\ r.err # NoError
        /\ r.users = users
        /\ ~HasEmail(users, email)
           => /\ r.err = WithError(ErrInternalServer, HashFailure)
              /\ RegisterAnswer(users, email, TooLong, NewUUID(nextId), TRUE).status
                    = StatusInternalServerError
              /\ RegisterAnswer(users, email, TooLong, NewUUID(nextId), TRUE).users = users
    /\ \A id \in DOMAIN users : users[id].Password.of \notin {TooLong, Truncated(TooLong)}

\* an email that is still free, registered with a too long password after
\* another user has registered
C20_Witness ==
    \E email \in Emails :
        /\ ~HasEmail(users, email)
        /\ nextId <= MaxUsers /\ nextId > 1
        /\ Create(users, FromUserRequest(email, TooLong), NewUUID(nextId), TRUE).err
               = WithError(ErrInternalServer, HashFailure)


\* ------------------------------------ claims: the blacklist as shared state
\* call p is in the middle of its write to refreshTokenBlacklist
InWrite(p) == pc[p] = "marking"

\* C21: the accesses to the blacklist exclude each other: no two calls are
\* in the middle of a write to it at the same time.
C21_MutualExclusion ==
    \A p \in Calls, q \in Calls : (p # q /\ InWrite(p)) => ~InWrite(q)


\* ====================================== the user table behind the routes
\* Register, PUT and DELETE /admin/users/:id and the operator's writes of
\* roles, served one after the other.  The admin requests carry an access
\* token issued to an admin at time 0, which passes both gates until it
\* expires whatever the table says by now.
OperatorToken ==
    GenerateToken(jwt, User(NewUUID(0), DefaultAdminEmail, NoPassword, <<"admin">>), 0, 0, 0)

InitStore ==
    /\ jwt \in SystemJWTServices
    /\ now = 0
    /\ users = Bootstrap(<<>>, NewUUID(0))
    /\ nextId = 1
    /\ blacklist = {}
    /\ issued = {}
    /\ exchanged = {} /\ loggedOut = {}
    /\ IdleCalls /\ IdleCodec /\ IdleGate

\* the bodies of PUT /admin/users/:id: any email or none, roles left out,
\* given as a list or given as the empty list
UpdateBodies ==
    { UpdateData(e, h, r) : e \in AllEmails \cup {""}, h \in BOOLEAN,
                            r \in {<<"admin">>, NoRoles} }

\* PUT /admin/users/:id by the operator
StoreUpdate ==
    \E id \in AdminTargets, data \in UpdateBodies :
        LET r == AdminUpdateAnswer(jwt, users, Bearer(OperatorToken), id, data, now) IN
        /\ users' = r.users
        /\ UNCHANGED <<now, nextId, blacklist, issued, exchanged, loggedOut>>
        /\ ServerOnly

\* DELETE /admin/users/:id by the operator
StoreDelete ==
    \E id \in AdminTargets :
        LET r == AdminDeleteAnswer(jwt, users, Bearer(OperatorToken), id, now) IN
        /\ users' = r.users
        /\ UNCHANGED <<now, nextId, blacklist, issued, exchanged, loggedOut>>
        /\ ServerOnly

NextStore ==
    \/ Register
    \/ StoreUpdate
    \/ StoreDelete
    \/ StoreSetRoles

SpecStore == InitStore /\ [][NextStore]_vars

\* ------------------------------------------- claims: the rows of the table
\* C22: no two stored users share an email, after any sequence of Register,
\* Update and Delete, an Update to the email of another row included.
C22_UniqueEmail ==
    \A i \in DOMAIN users, j \in DOMAIN users :
        i # j => users[i].Email # users[j].Email

\* three rows are stored and an Update of one to the email of another is
\* answered 500 and changes nothing
C22_Witness ==
    \E i \in DOMAIN users, j \in DOMAIN users :
        LET r == AdminUpdateAnswer(jwt, users, Bearer(OperatorToken), i,
                                   UpdateData(users[j].Email, FALSE, NoRoles), now) IN
        /\ i # j
        /\ Cardinality(DOMAIN users) = 3
        /\ r.status = StatusInternalServerError
        /\ r.users = users


\* PUT /admin/users/:id with roles given as the empty list
EmptyRoles(id) ==
    AdminUpdateAnswer(jwt, users, Bearer(OperatorToken), id, UpdateData("", TRUE, NoRoles), now)

InitIssue ==
    /\ jwt \in { NewJWTService(AccessKey, a, RefreshKey, 1) : a \in 0..(MaxTTL + 1) }
    /\ now = 0
    /\ tok = NoToken /\ subject = NoSubject /\ vres = NoVres
    /\ req = <<>> /\ ctx = <<>>
    /\ IdleServer

SpecIssue == InitIssue /\ [][NextJWT]_vars

\* The two readings of the clock in one call are less than a second apart
\* and may fall in two different seconds.  An hour is longer than that
\* second; at the scale of the model, where an hour may be as short as a
\* second, that is a lifetime of more than one second.
AtLeastAnHour == Hour * jwt.expirationTime > Second

\* C24 as stated: every access token GenerateToken issues, for every
\* configured TTL, TTL 0 included, has exp > iat and sub equal to the
\* user's id.
C24_ExpiryAfterIssue ==
    subject.kind = "access"
    => /\ (jwt.expirationTime = 0 \/ AtLeastAnHour) => tok.exp > tok.iat
       /\ tok.sub = subject.user.ID

\* C24, amended: every access token GenerateToken issues has sub equal to
\* the user's id; with a TTL of at least one hour its exp is greater than
\* its iat, with TTL 0 its exp is not greater than its iat.
C24_ExpiryAfterIssueTTL ==
    subject.kind = "access"
    => /\ tok.sub = subject.user.ID
       /\ tok.user_id = subject.user.ID
       /\ AtLeastAnHour => tok.exp > tok.iat
       /\ jwt.expirationTime = 0 => tok.exp <= tok.iat

\* a token with a TTL of an hour or more whose iat was read in the second
\* after the one its exp was computed from
C24_Witness ==
    /\ subject.kind = "access"
    /\ AtLeastAnHour
    /\ tok.iat > NewNumericDate(subject.at)
    /\ tok.exp > tok.iat

\* a token issued with TTL 0: exp is iat or earlier
C24_WitnessZero ==
    /\ subject.kind = "access"
    /\ jwt.expirationTime = 0
    /\ tok.exp <= tok.iat


\* -------------------------------------- claims: the blacklist over time
\* C25: no request removes an entry from the blacklist: whatever step the
\* server takes (login, refresh, logout, admin update and delete), every
\* token that was blacklisted before it is blacklisted after it.
C25_OnlyGrows == [][blacklist \subseteq blacklist']_vars

\* an exchanged token and a logged-out token, both still blacklisted
C25_Witness ==
    \E R1 \in exchanged, R2 \in loggedOut :
        /\ R1 # R2
        /\ R1 \notin loggedOut
        /\ {R1, R2} \subseteq blacklist


\* ------------------------------------------ claims: logout behind the gate
\* "Bearer <token>" headers with anything a client can put as the token,
\* and no header at all
LogoutHeaders == {NoHeader} \cup { Bearer(t) : t \in Presentable }

\* the request carries no valid access token
NoValidAccessToken(header) ==
    header = NoHeader \/ ~ValidateToken(jwt, header.token, now).valid

\* C26: POST /users/logout without a valid access token is answered 401 and
\* has no effect: the refresh token of its body is not blacklisted and, if
\* it could be exchanged before, it still can.
C26_LogoutNeedsToken ==
    \A header \in LogoutHeaders, p \in issued :
        LET r == LogoutAnswer(jwt, blacklist, header, p.refresh, now) IN
        NoValidAccessToken(header)
        => /\ r.status = StatusUnauthorized
           /\ r.blacklist = blacklist
           /\ (Live(p.refresh) /\ p.refresh \notin blacklist)
              => RefreshTokens(jwt, users, r.blacklist, p.refresh, now, TRUE).err = NoError

\* a logout with the expired access token of an older pair and the live
\* refresh token of a newer one: 401, and the refresh token can be exchanged
C26_Witness ==
    \E p \in issued, q \in issued :
        /\ now >= q.access.exp
        /\ Live(p.refresh) /\ p.refresh \notin blacklist
        /\ LogoutAnswer(jwt, blacklist, Bearer(q.access), p.refresh, now).status
               = StatusUnauthorized
        /\ RefreshTokens(jwt, users, blacklist, p.refresh, now, TRUE).err = NoError


\* C27: the blacklist holds exactly the tokens a successful RefreshTokens
\* consumed and the tokens given to a successful Logout: a login, successful
\* or not, adds nothing; a RefreshTokens that succeeds adds the presented
\* token and nothing else, one that fails adds nothing.
C27_ChangedOnlyBy ==
    /\ blacklist = exchanged \cup loggedOut
    /\ \A t \in Presentable : \A up \in BOOLEAN :
        LET r == RefreshTokens(jwt, users, blacklist, t, now, up) IN
        r.blacklist = IF r.err = NoError THEN blacklist \cup {t} ELSE blacklist

\* after an exchange and a logout, a token that RefreshTokens refuses as
\* invalid and a token it accepts
C27_Witness ==
    /\ exchanged # {} /\ loggedOut # {}
    /\ \E t \in Held :
        /\ t \notin blacklist
        /\ RefreshTokens(jwt, users, blacklist, t, now, TRUE).err.Code = StatusUnauthorized
    /\ \E t \in Held :
        RefreshTokens(jwt, users, blacklist, t, now, TRUE).blacklist = blacklist \cup {t}
           /\ t \notin blacklist


\* ------------------------------------- claims: the net/http role gate
\* C28: behind the net/http RequireRole(role, next) the next handler runs
\* only for a user whose roles include role: a request with a valid token
\* whose roles lack role is rejected.
C28_HTTPRequireRole ==
    (Ran(AuthenticateName) /\ Ran(RequireRoleName) /\ Ran(HandlerName)
        /\ req.header.token \in { GenerateToken(jwt, u, 0, 0, 0) : u \in GateUsers })
    => req.role \in RoleSet(req.header.token.roles)


\* ------------------------------------------ claims: roles set by an admin
\* PUT /admin/users/:id with roles S
SetRoles(id, S) ==
    AdminUpdateAnswer(jwt, users, Bearer(OperatorToken), id, UpdateData("", TRUE, S), now)

\* C29: after a successful admin Update of a user with roles S the stored
\* roles are S: GetByID returns roles S and the access token of the user's
\* next login carries roles S.
C29_RolesStored ==
    \A id \in DOMAIN users : \A S \in {<<"admin">>, <<"admin", "user">>, DefaultRoles} :
        LET r == SetRoles(id, S) IN
        (r.status = StatusOK /\ users[id].Password.hashed)
        => /\ GetByID(r.users, id, TRUE).user.Roles = S
           /\ Authenticate(jwt, r.users, users[id].Email, users[id].Password.of,
                           now, TRUE).access.roles = S


\* ------------------------------- claims: refresh tokens of several sessions
\* consuming one refresh token does not stop RefreshTokens from accepting
\* another, live one that is a different string
OtherTokensStay ==
    \A p \in issued, q \in issued :
        (p.refresh # q.refresh /\ Live(p.refresh) /\ p.refresh \notin blacklist)
        => RefreshTokens(jwt, users, blacklist \cup {q.refresh}, p.refresh, now, TRUE).err
               = NoError

SubjectTable == (subject.user.ID :> subject.user)

DistinctSecrets == jwt.secretKey # jwt.refreshKey

\* C31: when the access secret and the refresh secret differ, a refresh
\* token is rejected by ValidateToken and, as a Bearer token, by
\* GinAuthenticate with 401, and an access token is rejected by
\* ValidateRefreshToken and by RefreshTokens with Unauthorized; the answers
\* the codec recorded agree.
C31_NotInterchangeable ==
    DistinctSecrets =>
        /\ subject.kind = "refresh" =>
              /\ ~ValidateToken(jwt, tok, now).valid
              /\ GinAuthenticate(jwt, Bearer(tok), NoKeys, now).abort
              /\ GinAuthenticate(jwt, Bearer(tok), NoKeys, now).status = StatusUnauthorized
              /\ (vres.op = "ValidateToken" => ~vres.valid)
        /\ subject.kind = "access" =>
              /\ ~ValidateRefreshToken(jwt, tok, now).valid
              /\ RefreshTokens(jwt, SubjectTable, {}, tok, now, TRUE).err.Code = StatusUnauthorized
              /\ RefreshTokens(jwt, SubjectTable, {}, tok, now, TRUE).access = NoToken
              /\ (vres.op = "ValidateRefreshToken" => ~vres.valid)

\* a refresh token that is still good as a refresh token has been refused
\* as an access token
C31_Witness ==
    /\ DistinctSecrets
    /\ subject.kind = "refresh"
    /\ ValidateRefreshToken(jwt, tok, now).valid
    /\ vres.op = "ValidateToken" /\ ~vres.valid

\* an access token that is still good as an access token has been refused
\* as a refresh token
C31_WitnessAccess ==
    /\ DistinctSecrets
    /\ subject.kind = "access"
    /\ ValidateToken(jwt, tok, now).valid
    /\ vres.op = "ValidateRefreshToken" /\ ~vres.valid
    /\ RefreshTokens(jwt, SubjectTable, {}, tok, now, TRUE).err.Message = ErrUnauthorized.Message


\* ------------------------------------------------------------------ C32
\* the authenticated caller of a header that passes Gate A
Caller(header) == GinAuthenticate(jwt, header, NoKeys, now).keys.user_id

\* C32: a Logout that passes Gate A adds whatever non-empty refresh_token
\* it carries to the consumed set and answers 200: a malformed string, a
\* forged, an expired or an already consumed token, and a token whose
\* subject is not the caller; RefreshTokens with that token then fails as
\* already used, and every token a Logout was answered 200 for is refused.
C32_LogoutUnconditional ==
    /\ \A header \in Headers :
          ~GinAuthenticate(jwt, header, NoKeys, now).abort
          => \A presented \in (LogoutBodies \ {NoToken}) \cup {Forged} :
                LET r == LogoutAnswer(jwt, blacklist, header, presented, now) IN
                /\ r.status = StatusOK
                /\ r.blacklist = blacklist \cup {presented}
                /\ RefreshTokens(jwt, users, r.blacklist, presented, now, TRUE).err
                     = WithMessage(ErrUnauthorized, AlreadyUsed)
    /\ \A t \in loggedOut :
          RefreshTokens(jwt, users, blacklist, t, now, TRUE).err
            = WithMessage(ErrUnauthorized, AlreadyUsed)

\* user B's refresh token, unexpired and never exchanged, was logged out
\* while another user holds an access token that passes Gate A and that a
\* Logout carrying B's token is answered 200 for
C32_Witness ==
    \E p \in issued, q \in issued :
        /\ ~GinAuthenticate(jwt, Bearer(p.access), NoKeys, now).abort
        /\ Caller(Bearer(p.access)) # q.refresh.sub
        /\ q.refresh \in loggedOut /\ q.refresh \notin exchanged
        /\ Live(q.refresh) /\ q.refresh.sub \in DOMAIN users
        /\ LogoutAnswer(jwt, blacklist, Bearer(p.access), q.refresh, now).status = StatusOK
        /\ RefreshTokens(jwt, users, blacklist, q.refresh, now, TRUE).err.Code = StatusUnauthorized

\* a string that is no token at all was logged out
C32_WitnessMalformed == Malformed \in loggedOut /\ Malformed \in blacklist


\* ------------------------------------------------------------------ C33
\* Every request the router serves: register, login, refresh, logout and
\* the /admin update and delete.  The deployment starts with the default
\* admin and one registered user, whose roles column holds what the
\* operator left there: the default, or admin.  The token lifetimes are the
\* shortest access and the longest refresh lifetime, and the deployment
\* has been up for a while: the clock stands one tick before the end of
\* the window, so every token issued stays valid.
InitRoutes ==
    /\ jwt = NewJWTService(AccessKey, 1, RefreshKey, MaxTTL)
    /\ now = MaxTime - 1
    /\ \E roles \in {DefaultRoles, <<"admin">>} :
          users = [ConcUsers EXCEPT ![NewUUID(1)].Roles = roles]
    /\ nextId = 2
    /\ blacklist = {}
    /\ issued = {}
    /\ exchanged = {} /\ loggedOut = {}
    /\ IdleCalls /\ IdleCodec /\ IdleGate

NextRoutes ==
    \/ Register
    \/ AdmLogin
    \/ AdmRefresh
    \/ AdmLogout
    \/ AdminUpdate
    \/ AdminDelete
    \/ Tick

SpecRoutes == InitRoutes /\ [][NextRoutes]_vars

\* the step is a PUT /admin/users/:id whose access token passes both gates
\* and carries role admin
AdminPutByAdmin ==
    \E p \in issued, id \in AdminTargets,
       data \in { UpdateData(e, h, <<"admin", "user">>) : e \in {"", NewEmail}, h \in BOOLEAN } :
        /\ ValidateToken(jwt, p.access, now).valid
        /\ "admin" \in RoleSet(p.access.roles)
        /\ users' = AdminUpdateAnswer(jwt, users, Bearer(p.access), id, data, now).users

NewCreate(email, password) ==
    [email |-> email, password |-> password, hash |-> NoPassword, err |-> NoError]

InitCreate ==
    /\ jwt \in SystemJWTServices
    /\ now = 0
    /\ users = Bootstrap(<<>>, NewUUID(0))
    /\ nextId = 1
    /\ blacklist = {}
    /\ issued = {}
    /\ loc \in [Calls -> { NewCreate(e, pw) : e \in AllEmails, pw \in {"pw1", TooLong} }]
    /\ pc = [p \in Calls |-> "check"]
    /\ exchanged = {} /\ loggedOut = {}
    /\ IdleCodec /\ IdleGate

CreateOnly == UNCHANGED <<jwt, now, blacklist, issued, exchanged, loggedOut,
                          tok, subject, vres, req, ctx>>

\* GetByEmail, the test for an existing user, and the bcrypt hash
CreateCheck(p) ==
    /\ pc[p] = "check"
    /\ LET existing == RepoGetByEmail(users, loc[p].email, TRUE)
           h == GenerateFromPassword(loc[p].password)
       IN  IF existing.err THEN Return(p, WithError(ErrInternalServer, RepoFailure))
           ELSE IF existing.user # NoUser THEN Return(p, ErrEmailAlreadyExists)
           ELSE IF h.err THEN Return(p, WithError(ErrInternalServer, HashFailure))
           ELSE /\ pc' = [pc EXCEPT ![p] = "save"]
                /\ loc' = [loc EXCEPT ![p].hash = h.hash]
    /\ UNCHANGED <<users, nextId>>
    /\ CreateOnly

\* us.userRepo.Create(user) and the return
CreateSave(p) ==
    /\ pc[p] = "save"
    /\ LET c == RepoCreate(users, User("", loc[p].email, loc[p].hash, DefaultRoles),
                           NewUUID(nextId), TRUE)
       IN  IF c.err
           THEN /\ Return(p, WithError(ErrInternalServer, RepoFailure))
                /\ UNCHANGED <<users, nextId>>
           ELSE /\ Return(p, NoError)
                /\ users' = c.users
                /\ nextId' = nextId + 1
    /\ CreateOnly

NextCreate == \E p \in Calls : CreateCheck(p) \/ CreateSave(p)

SpecCreate == InitCreate /\ [][NextCreate]_vars

\* ------------------------------------------------------------------ C34
\* two finished calls for the same email, each with a password that hashes
SameEmailDone(p, q) ==
    /\ p # q
    /\ pc[p] = "done" /\ pc[q] = "done"
    /\ loc[p].email = loc[q].email
    /\ loc[p].password # TooLong /\ loc[q].password # TooLong

\* at most one of the calls succeeds, and no two rows hold one email
OneRowPerEmail ==
    /\ \A p \in Calls, q \in Calls :
          SameEmailDone(p, q) => ~(loc[p].err = NoError /\ loc[q].err = NoError)
    /\ \A id \in DOMAIN users, id2 \in DOMAIN users :
          users[id].Email = users[id2].Email => id = id2

\* C34: of two concurrent Create calls with the same email at most one
\* succeeds and the other fails with EmailAlreadyExists, in every
\* interleaving, and the table never holds two rows with that email.
C34_ConcurrentCreate ==
    /\ OneRowPerEmail
    /\ \A p \in Calls, q \in Calls :
          (SameEmailDone(p, q) /\ loc[p].err = NoError)
          => loc[q].err = ErrEmailAlreadyExists


\* ------------------------------------------------------------------ C35
\* the answer to a login with the default admin's email and password
DefaultAdminLogin ==
    Authenticate(jwt, users, DefaultAdminEmail, DefaultAdminPassword, now, TRUE)

\* C35: on the server started on an empty table, a login with
\* DEFAULT_ADMIN_EMAIL and DEFAULT_ADMIN_PASSWORD succeeds and the access
\* token it returns passes GinAuthenticate and GinRequireRole(admin).
C35_DefaultAdminUsable ==
    /\ DefaultAdminLogin.err = NoError
    /\ ~AdminGates(jwt, Bearer(DefaultAdminLogin.access), now).abort


\* ------------------------------------------------------------------ C36
\* the row keeps its id and its password hash, and every password that
\* logged the identity in before logs it in under the email it has now
SameIdentity(before, after, id) ==
    /\ DOMAIN after = DOMAIN before
    /\ after[id].ID = id
    /\ after[id].Password = before[id].Password
    /\ \A pw \in {ConcPassword, DefaultAdminPassword} :
          Authenticate(jwt, before, before[id].Email, pw, now, TRUE).err = NoError
          => Authenticate(jwt, after, after[id].Email, pw, now, TRUE).err = NoError

\* C36: a successful Update through the admin controller or the user
\* controller, whatever email and roles it carries, leaves the identifier
\* and the stored password hash of the row as they were, and a login with
\* the row's current email and its original password still succeeds; the
\* user registered at the start keeps the hash it registered with.
C36_UpdateKeepsCredentials ==
    /\ \A p \in issued :
          ~AdminGates(jwt, Bearer(p.access), now).abort
          => \A id \in AdminTargets, data \in UpdateBodies :
                LET r == AdminUpdateAnswer(jwt, users, Bearer(p.access), id, data, now) IN
                r.status = StatusOK => SameIdentity(users, r.users, id)
    /\ \A id \in AdminTargets, email \in AllEmails \cup {""} :
          LET r == UserUpdateAnswer(users, id, email) IN
          r.status = StatusOK => SameIdentity(users, r.users, id)
    /\ NewUUID(1) \in DOMAIN users
       => /\ users[NewUUID(1)].Password = ConcUsers[NewUUID(1)].Password
          /\ Authenticate(jwt, users, users[NewUUID(1)].Email, ConcPassword, now, TRUE).err
               = NoError

\* the user registered as a@x.com has been given another email by an admin
\* update and logs in with it and the password it registered with
C36_Witness ==
    /\ NewUUID(1) \in DOMAIN users
    /\ users[NewUUID(1)].Email = NewEmail
    /\ Authenticate(jwt, users, NewEmail, ConcPassword, now, TRUE).err = NoError
    /\ Authenticate(jwt, users, ConcEmail, ConcPassword, now, TRUE).err = ErrInvalidCredentials


\* ------------------------------------------------- recovery middlewares
\* What a handler does with a request: it returns after writing an answer,
\* or it panics with a value, which is an error (an AppError, or another
\* error such as a runtime error) or is not one (a string, kept with its
\* text).
Returns(status, message) ==
    [panics |-> FALSE, is_error |-> FALSE, value |-> NoError,
     answer |-> [status |-> status, message |-> message]]

Panics(is_error, value) ==
    [panics |-> TRUE, is_error |-> is_error, value |-> value, answer |-> NoAnswer]

PanicTexts == {"este é um pânico simulado", "index out of range"}

Handlers ==
    {Returns(StatusOK, "OK"), Returns(StatusCreated, "")}
        \cup { Panics(FALSE, PlainError(t)) : t \in PanicTexts }
        \cup { Panics(TRUE, e) : e \in HandledErrors }

InternalMessage == "Erro interno do servidor"

\* GinMiddlewareRecovery around handler h: the answer the client gets
GinMiddlewareRecovery(h) ==
    IF ~h.panics THEN h.answer
    ELSE GinHandleError(IF h.is_error THEN h.value
                        ELSE WithMessage(ErrInternalServer, InternalMessage))

\* WithRecovery around handler h
WithRecovery(h) ==
    IF ~h.panics THEN h.answer
    ELSE HandleError(IF h.is_error THEN h.value
                     ELSE WithMessage(ErrInternalServer, InternalMessage))

\* one request and the handler that serves it, not yet run
InitRecover ==
    /\ jwt \in SystemJWTServices
    /\ now = 0
    /\ \E h \in Handlers : req = [handler |-> h]
    /\ ctx = [via |-> "none", answer |-> NoAnswer]
    /\ IdleServer /\ IdleCodec

\* the handler runs on a Gin router that uses GinMiddlewareRecovery
RecoverGin ==
    /\ ctx.via = "none"
    /\ ctx' = [via |-> "gin", answer |-> GinMiddlewareRecovery(req.handler)]
    /\ UNCHANGED <<req, now>>
    /\ GateOnly

\* the handler runs wrapped in WithRecovery
RecoverHTTP ==
    /\ ctx.via = "none"
    /\ ctx' = [via |-> "http", answer |-> WithRecovery(req.handler)]
    /\ UNCHANGED <<req, now>>
    /\ GateOnly

NextRecover ==
    \/ RecoverGin
    \/ RecoverHTTP

SpecRecover == InitRecover /\ [][NextRecover]_vars

\* ------------------------------------------------------------------ C37
InternalAnswer == [status |-> StatusInternalServerError, message |-> InternalMessage]

\* a panic whose value is not an AppError is answered 500 with the fixed
\* message, and a handler that returns keeps its answer
RecoversOthers ==
    ctx.via # "none"
    => /\ ~req.handler.panics => ctx.answer = req.handler.answer
       /\ (req.handler.panics /\ ~IsAppError(req.handler.value))
            => ctx.answer = InternalAnswer

\* C37: both recovery middlewares answer every panic of the handler,
\* whatever its value, with status 500 and the message 'Erro interno do
\* servidor', and leave the answer of a handler that does not panic alone.
C37_EveryPanicInternal ==
    ctx.via # "none"
    => IF req.handler.panics
       THEN ctx.answer = InternalAnswer
       ELSE ctx.answer = req.handler.answer


\* ------------------------------------------- Handler.GetCurrentUser
\* A context key is compared with its type: the middleware's keys are of
\* type contextKey, and a plain string with the same text is another key.
Key(type, name) == [type |-> type, name |-> name]

UserIDKey == Key("contextKey", "user_id")
UserEmailKey == Key("contextKey", "user_email")

\* r.Context().Value(key): nil unless a value was stored under that key
Value(values, key) ==
    IF key = UserIDKey /\ values.has_UserIDKey
    THEN [nil |-> FALSE, value |-> values.UserIDKey]
    ELSE IF key = UserEmailKey /\ values.has_UserIDKey
    THEN [nil |-> FALSE, value |-> values.UserEmailKey]
    ELSE [nil |-> TRUE, value |-> ""]

\* Handler.GetCurrentUser: it asks the context for the string "user_id"
GetCurrentUser(values, us) ==
    LET userID == Value(values, Key("string", "user_id"))
        found == GetByID(us, userID.value, TRUE)
    IN  IF userID.nil THEN HandleError(ErrUnauthorized) @@ [user |-> NoUser]
        ELSE IF found.err # NoError THEN HandleError(found.err) @@ [user |-> NoUser]
        ELSE [status |-> StatusOK, message |-> "", user |-> found.user]

\* ------------------------------------------------------------------ C38
\* the table that holds the user the gate tokens were generated for
GateTable == ("u1" :> User("u1", "a@x.com", NoPassword, DefaultRoles))

\* C38: once a request has passed the net/http Authenticate middleware,
\* GetCurrentUser finds the user id the middleware stored in the context
\* and answers 200 with that user's data, not Unauthorized.
C38_CurrentUserFound ==
    (/\ Ran(AuthenticateName) /\ ~ctx.aborted /\ ctx.values.has_UserIDKey
     /\ req.header.token \in { GenerateToken(jwt, u, 0, 0, 0) : u \in GateUsers })
    => /\ GetCurrentUser(ctx.values, GateTable).status = StatusOK
       /\ GetCurrentUser(ctx.values, GateTable).user.ID = ctx.values.UserIDKey

====
